---- MODULE Spec2Model ----
(***************************************************************************)
(* Verification model of the course timetabling solvers of auto-sched.     *)
(*                                                                         *)
(*  - the backtracking + relaxed + split solver (class ScheduleSolver of   *)
(*    the hierarchical scheduler, src/unnamed/part_001 lines 320-567)      *)
(*  - the greedy strategy solver (src/schedule-solver.js)                  *)
(*  - the mutable-grid backtracking solver (Scheduler.js,                  *)
(*    src/unnamed/part_001 lines 578-827)                                  *)
(*                                                                         *)
(* Each solver is a state machine of its own (Spec, GreedySpec,            *)
(* TimetableSpec); the variables of the other solvers stay at their initial*)
(* value.                                                                  *)
(***************************************************************************)
EXTENDS Integers, Sequences, FiniteSets, TLC

VARIABLES
    courses,              \* the courses argument of solve; coursesCopy has its value
    pc,                   \* position of the solve call
    stack,                \* activation records of backtrackScheduling
    btResult,             \* value returned by the outermost backtrackScheduling
    sortedCourses,        \* relaxedScheduling: sortedCourses
    relaxedIndex,         \* relaxedScheduling: position of `for (const course of sortedCourses)`
    schedule,             \* relaxedScheduling: schedule
    teacherAvailability,  \* relaxedScheduling: teacherAvailability
    hoursPlaced,          \* tryToSplitCourse: hoursPlaced
    daysToTry,            \* tryToSplitCourse: daysToTry
    result,               \* value returned by solve
    dayChoice,            \* how Math.random selects the day in tryToSplitCourse
    earlier,              \* the argument and the result of an earlier solve call
    \* greedy strategy solver (schedule-solver.js)
    gCourses,             \* the courses argument of solve
    gpc,                  \* position of the solve call
    grid,                 \* this.grid
    gSorted,              \* sortedCourses
    gIndex,               \* position of `for (const course of sortedCourses)`
    unassignedCourses,    \* unassignedCourses
    writes,               \* the assignments to grid[day][time] of this call, in order
    gResult,              \* value returned by solve
    gridId,               \* identity of the object this.grid refers to
    gEarlier,             \* the grid object an earlier solve call returned
    \* mutable-grid backtracking solver (Scheduler.js)
    queued,               \* this.courses
    tpc,                  \* position of the solve call
    timetable,            \* this.schedule
    tSorted,              \* sortedCourses
    calls,                \* activation records of backtrackingSchedule
    tResult,              \* value returned by solve
    tEarlier,             \* the schedule object an earlier solve call returned
    \* ScheduleManager (part_001)
    currentSchedule,      \* this.currentSchedule
    status,               \* the message of the last showStatus call
    \* the page script of part_000
    state,                \* state.courseQueue, state.generatedSchedule, state.currentStep
    timers,               \* the pending setTimeout callbacks of handleGenerateSchedule
    outcome,              \* how the last call of generateScheduleWithSolver ended
    clock,                \* Date.now()
    statusContainer,      \* the message showStatus put in statusContainer, by its type
    loadingIndicator,     \* whether the class list of loadingIndicator has 'hidden'
    \* the page script of generate-schedule.html
    courseQueue,          \* courseQueue
    apiAvailable,         \* apiAvailable
    fetches,              \* the fetch calls that have not settled yet
    page,                 \* statusMessage, loadingIndicator and timetableContainer
    localRun              \* how the last call of generateScheduleLocally ended

solverVars == <<courses, pc, stack, btResult, sortedCourses, relaxedIndex, schedule,
                teacherAvailability, hoursPlaced, daysToTry, result, dayChoice, earlier>>

greedyVars == <<gCourses, gpc, grid, gSorted, gIndex, unassignedCourses, writes, gResult,
                gridId, gEarlier>>

timetableVars == <<queued, tpc, timetable, tSorted, calls, tResult, tEarlier>>

managerVars == <<currentSchedule, status>>

pageVars == <<courseQueue, apiAvailable, fetches, page, localRun>>

appVars == <<state, timers, outcome, clock, statusContainer, loadingIndicator, pageVars>>

vars == <<solverVars, greedyVars, timetableVars, managerVars, appVars>>

----------------------------------------------------------------------------
(* Bounds of the explored inputs *)

MaxCourses == 2

\* courses of a list that are longer than a day (duration > 9)
MaxLongCourses == 1

----------------------------------------------------------------------------
(* Constants of the backtracking + relaxed solver *)

days == <<"Monday", "Tuesday", "Wednesday", "Thursday", "Friday">>

HoursLength == 10

FirstHour == 8

EndHour == 17

hours == [i \in 1..HoursLength |-> i - 1 + FirstHour]

Range(s) == {s[i] : i \in DOMAIN s}

DaySet == Range(days)

HourSet == Range(hours)

NoResult == [success |-> FALSE, pending |-> TRUE]

----------------------------------------------------------------------------
(* Inputs: course records as the form of the application builds them.      *)
(* preferredDays is the list of the selected options of a multi-select, in  *)
(* document order (Monday..Friday), without repetition.                     *)

\* the courses a list may start with
CourseShapes ==
    { [teacher |-> "T1", duration |-> 3,  preferredDays |-> <<>>],
      [teacher |-> "T2", duration |-> 5,  preferredDays |-> <<"Monday", "Tuesday">>],
      [teacher |-> "T2", duration |-> 1,  preferredDays |-> <<"Monday">>],
      [teacher |-> "T2", duration |-> 3,  preferredDays |-> <<"Tuesday">>],
      [teacher |-> "T1", duration |-> 10, preferredDays |-> <<>>] }

\* a week of full-day courses, one per day; a list ends with none, the
\* first four or all five of them
BaseLoad ==
    [i \in 1..Len(days) |->
        [teacher |-> IF i % 2 = 1 THEN "T1" ELSE "T2", duration |-> 9,
         preferredDays |-> <<days[i]>>]]

LoadChoices == {0, 4, 5}

WithId(shape, i) ==
    [id |-> i, teacher |-> shape.teacher, duration |-> shape.duration,
     preferredDays |-> shape.preferredDays]

LongCount(head) == Cardinality({i \in DOMAIN head : head[i].duration > EndHour - FirstHour})

HeadLists ==
    { head \in UNION { [1..n -> CourseShapes] : n \in 0..MaxCourses } :
        LongCount(head) <= MaxLongCourses }

CourseLists ==
    { [i \in 1..(k + Len(head)) |->
          WithId(IF i <= Len(head) THEN head[i] ELSE BaseLoad[i - Len(head)], i)]
      : k \in LoadChoices, head \in HeadLists }

----------------------------------------------------------------------------
(* initializeAvailability *)

initializeAvailability == [d \in DaySet |-> [h \in HourSet |-> TRUE]]

MarkUsedForgotten(availability, day, cells) == availability

\* only the first hour of a placement is marked
MarkUsedFirstHour(availability, day, cells) ==
    IF cells = {} THEN availability
    ELSE [availability EXCEPT ![day] =
            [h \in HourSet |-> IF h = CHOOSE x \in cells : \A y \in cells : x <= y
                               THEN FALSE ELSE @[h]]]

MarkUsed(availability, day, cells) ==
    [availability EXCEPT ![day] = [h \in HourSet |-> IF h \in cells THEN FALSE ELSE @[h]]]

\* an entry that never carries the flag
EntryUnflagged(course, day, hour, split) ==
    [course |-> course, day |-> day, hour |-> hour, duration |-> 1, isSplit |-> FALSE]

Entry(course, day, hour, split) ==
    [course |-> course, day |-> day, hour |-> hour, duration |-> 1, isSplit |-> split]

BlockEntriesSameHour(course, day, startHour) ==
    [h \in 1..course.duration |-> Entry(course, day, startHour, FALSE)]

BlockEntries(course, day, startHour) ==
    [h \in 1..course.duration |-> Entry(course, day, startHour + h - 1, FALSE)]

----------------------------------------------------------------------------
(* backtrackScheduling *)

ExactDaysToTryAllDays(course) ==
    course.preferredDays
    \o SelectSeq(days, LAMBDA d : d \notin Range(course.preferredDays))

ExactDaysToTry(course) ==
    IF Len(course.preferredDays) > 0 THEN course.preferredDays ELSE days

LastStart(course) == EndHour - course.duration

CanScheduleExactUnchecked(availability, day, startHour, duration) ==
    \A h \in 0..(duration - 1) :
        LET hour == startHour + h
        IN  ~ (hour < FirstHour \/ hour >= EndHour)

CanScheduleExact(availability, day, startHour, duration) ==
    \A h \in 0..(duration - 1) :
        LET hour == startHour + h
        IN  ~ (hour < FirstHour \/ hour >= EndHour \/ ~ availability[day][hour])

\* teacherAvailability[day][hour] with a day that is no key of the map is a
\* TypeError; it is evaluated as soon as the loops reach that day with a
\* first start hour and a first hour to test
ThrowsOn(day, course) ==
    day \notin DaySet /\ course.duration >= 1 /\ LastStart(course) >= FirstHour

\* the position in daysToTry of the first day that throws, or one past the end
FirstThrow(dtt, course) ==
    CHOOSE p \in 1..(Len(dtt) + 1) :
        /\ p <= Len(dtt) => ThrowsOn(dtt[p], course)
        /\ \A q \in 1..(p - 1) : ~ ThrowsOn(dtt[q], course)

\* a search that returns the result of its first recursive call, whatever
\* it is
PendingCandidatesNoRetry(f) ==
    LET course == courses[f.courseIndex]
    IN  { c \in (1..Len(f.daysToTry)) \X (FirstHour..LastStart(course)) :
            /\ f.dayPos = 1 /\ f.startHour = FirstHour
            /\ CanScheduleExact(f.teacherAvailability, f.daysToTry[c[1]], c[2], course.duration) }

\* the candidates of a frame at or after its loop position that pass the
\* canSchedule test
PendingCandidates(f) ==
    LET course == courses[f.courseIndex]
    IN  { c \in (1..Len(f.daysToTry)) \X (FirstHour..LastStart(course)) :
            /\ c[1] < FirstThrow(f.daysToTry, course)
            /\ (c[1] > f.dayPos \/ (c[1] = f.dayPos /\ c[2] >= f.startHour))
            /\ CanScheduleExact(f.teacherAvailability, f.daysToTry[c[1]], c[2], course.duration) }

Minimum(S) == CHOOSE x \in S : \A y \in S : x <= y

Maximum(S) == CHOOSE x \in S : \A y \in S : x >= y

FirstCandidateLatestStart(S) ==
    LET p == Minimum({c[1] : c \in S})
    IN  <<p, Maximum({c[2] : c \in {o \in S : o[1] = p}})>>

\* the first (day position, start hour) of a set in loop order
FirstCandidate(S) ==
    LET p == Minimum({c[1] : c \in S})
    IN  <<p, Minimum({c[2] : c \in {o \in S : o[1] = p}})>>

\* the activation record of a call: its arguments, daysToTry and the
\* position of its two loops
Frame(courseIndex, sched, availability) ==
    [courseIndex |-> courseIndex, schedule |-> sched,
     teacherAvailability |-> availability,
     daysToTry |-> IF courseIndex <= Len(courses)
                   THEN ExactDaysToTry(courses[courseIndex]) ELSE <<>>,
     dayPos |-> 1, startHour |-> FirstHour]

Top == stack[Len(stack)]

----------------------------------------------------------------------------
(* Constants and initial state of the greedy strategy solver *)

FirstSlot == 8

LastSlot == 18

\* the slots '08:00' .. '18:00', named by their hour
timeSlots == [i \in 1..(LastSlot - FirstSlot + 1) |-> i - 1 + FirstSlot]

SlotSet == Range(timeSlots)

\* the value null
Null == [null |-> TRUE]

\* initializeGrid
initializeGrid == [d \in DaySet |-> [t \in SlotSet |-> Null]]

\* the object the constructor's initializeGrid creates
FirstGridId == 1

\* an initializeGrid that empties the object this.grid refers to
KeptGridId(id) == id

\* `this.grid = {}`: this.grid refers to a new object
NewGridId(id) == id + 1

GreedyIdle ==
    /\ gCourses = <<>>
    /\ gpc = "idle"
    /\ grid = initializeGrid
    /\ gSorted = <<>>
    /\ gIndex = 0
    /\ unassignedCourses = <<>>
    /\ writes = <<>>
    /\ gResult = Null
    /\ gridId = FirstGridId
    /\ gEarlier = Null

----------------------------------------------------------------------------
(* Constants and initial state of the mutable-grid solver (Scheduler.js) *)

\* the slots '8:00 AM' .. '5:00 PM', named by their hour
slotHours == [i \in 1..10 |-> i + 7]

SlotHourSet == Range(slotHours)

\* the schedule of the constructor: every cell null
emptyTimetable == [d \in DaySet |-> [t \in SlotHourSet |-> Null]]

TimetableIdle ==
    /\ queued = <<>>
    /\ tpc = "idle"
    /\ timetable = emptyTimetable
    /\ tSorted = <<>>
    /\ calls = <<>>
    /\ tResult = Null
    /\ tEarlier = Null

\* a new ScheduleManager
ManagerIdle ==
    /\ currentSchedule = Null
    /\ status = ""

\* generate-schedule.html is loaded: `let courseQueue = []`,
\* `let apiAvailable = false`, and checkApiAvailability has sent its request
PageIdle ==
    /\ courseQueue = <<>>
    /\ apiAvailable = FALSE
    /\ fetches = [health |-> 1, generate |-> 0]
    /\ page = [statusMessage |-> Null, loadingIndicator |-> "markup",
               timetableContainer |-> "markup"]
    /\ localRun = Null

\* `const state = { courseQueue: [], generatedSchedule: null, currentStep: 1 }`
AppIdle ==
    /\ PageIdle
    /\ state = [courseQueue |-> <<>>, generatedSchedule |-> Null, currentStep |-> 1]
    /\ timers = 0
    /\ outcome = Null
    /\ clock = 0
    /\ statusContainer = Null
    /\ loadingIndicator = "markup"

SolverIdle ==
    /\ courses = <<>>
    /\ pc = "idle"
    /\ stack = <<>>
    /\ btResult = NoResult
    /\ sortedCourses = <<>>
    /\ relaxedIndex = 0
    /\ schedule = <<>>
    /\ teacherAvailability = initializeAvailability
    /\ hoursPlaced = 0
    /\ daysToTry = <<>>
    /\ result = NoResult
    /\ dayChoice = "random"
    /\ earlier = Null

\* a solver, the list solve is called with and the behaviour of Math.random
SolveStart(lists, choices) ==
    /\ courses \in lists
    /\ dayChoice \in choices
    /\ earlier = Null
    /\ pc = "start"
    /\ stack = <<>>
    /\ btResult = NoResult
    /\ sortedCourses = <<>>
    /\ relaxedIndex = 0
    /\ schedule = <<>>
    /\ teacherAvailability = initializeAvailability
    /\ hoursPlaced = 0
    /\ daysToTry = <<>>
    /\ result = NoResult
    /\ GreedyIdle
    /\ TimetableIdle
    /\ ManagerIdle
    /\ AppIdle

Init == SolveStart(CourseLists, {"random"})

\* solve: the call of backtrackScheduling(coursesCopy, [], initializeAvailability())
SolveBegin ==
    /\ pc = "start"
    /\ pc' = "backtrack"
    /\ stack' = <<Frame(1, <<>>, initializeAvailability)>>
    /\ UNCHANGED <<courses, btResult, sortedCourses, relaxedIndex, schedule,
                   teacherAvailability, hoursPlaced, daysToTry, result>>
    /\ UNCHANGED <<dayChoice, earlier>>
    /\ UNCHANGED <<greedyVars, timetableVars, managerVars, appVars>>

\* a solve that does not return on the successful result and goes on to
\* relaxedScheduling
BacktrackBaseCaseFallThrough ==
    /\ pc = "backtrack"
    /\ stack # <<>>
    /\ Top.courseIndex > Len(courses)
    /\ btResult' = [success |-> TRUE, schedule |-> Top.schedule]
    /\ stack' = <<>>
    /\ pc' = "relaxed-begin"
    /\ UNCHANGED <<courses, sortedCourses, relaxedIndex, schedule,
                   teacherAvailability, hoursPlaced, daysToTry, result>>
    /\ UNCHANGED <<dayChoice, earlier>>
    /\ UNCHANGED <<greedyVars, timetableVars, managerVars, appVars>>

\* base case: every frame returns the successful result to its caller, and
\* solve returns { success: true, schedule: result.schedule }
BacktrackBaseCase ==
    /\ pc = "backtrack"
    /\ stack # <<>>
    /\ Top.courseIndex > Len(courses)
    /\ btResult' = [success |-> TRUE, schedule |-> Top.schedule]
    /\ result' = [success |-> TRUE, schedule |-> Top.schedule]
    /\ stack' = <<>>
    /\ pc' = "done"
    /\ UNCHANGED <<courses, sortedCourses, relaxedIndex, schedule,
                   teacherAvailability, hoursPlaced, daysToTry>>
    /\ UNCHANGED <<dayChoice, earlier>>
    /\ UNCHANGED <<greedyVars, timetableVars, managerVars, appVars>>

\* the loops run to the next (day, startHour) with canSchedule, the course
\* is placed in copies of the schedule and of the availability, and the
\* recursive call is entered
BacktrackPlace ==
    /\ pc = "backtrack"
    /\ stack # <<>>
    /\ Top.courseIndex <= Len(courses)
    /\ \E pending \in {PendingCandidates(Top)} :
       /\ pending # {}
       /\ \E c \in {FirstCandidate(pending)} :
           LET f == Top
               course == courses[f.courseIndex]
               day == f.daysToTry[c[1]]
               cells == c[2]..(c[2] + course.duration - 1)
               tempSchedule == f.schedule \o BlockEntries(course, day, c[2])
               tempTeacherAvailability == MarkUsed(f.teacherAvailability, day, cells)
           IN  stack' = [stack EXCEPT ![Len(stack)] =
                            [f EXCEPT !.dayPos = c[1], !.startHour = c[2]]]
                        \o <<Frame(f.courseIndex + 1, tempSchedule, tempTeacherAvailability)>>
    /\ UNCHANGED <<courses, pc, btResult, sortedCourses, relaxedIndex, schedule,
                   teacherAvailability, hoursPlaced, daysToTry, result>>
    /\ UNCHANGED <<dayChoice, earlier>>
    /\ UNCHANGED <<greedyVars, timetableVars, managerVars, appVars>>

\* no candidate is left: return { success: false }; the caller's loop goes
\* on with the next start hour
BacktrackFail ==
    /\ pc = "backtrack"
    /\ stack # <<>>
    /\ Top.courseIndex <= Len(courses)
    /\ PendingCandidates(Top) = {}
    /\ FirstThrow(Top.daysToTry, courses[Top.courseIndex]) > Len(Top.daysToTry)
    /\ IF Len(stack) = 1
       THEN /\ stack' = <<>>
            /\ btResult' = [success |-> FALSE]
            /\ pc' = "relaxed-begin"
       ELSE /\ stack' = [SubSeq(stack, 1, Len(stack) - 1) EXCEPT ![Len(stack) - 1] =
                            [@ EXCEPT !.startHour = @ + 1]]
            /\ UNCHANGED <<btResult, pc>>
    /\ UNCHANGED <<courses, sortedCourses, relaxedIndex, schedule,
                   teacherAvailability, hoursPlaced, daysToTry, result>>
    /\ UNCHANGED <<dayChoice, earlier>>
    /\ UNCHANGED <<greedyVars, timetableVars, managerVars, appVars>>

\* `catch (error)` of solve
SolverError ==
    [success |-> FALSE,
     message |-> "Solver error: Cannot read properties of undefined (reading '8')"]

\* the loops reach a day that is no key of teacherAvailability: the
\* TypeError leaves every frame and solve returns from its catch block
BacktrackThrow ==
    /\ pc = "backtrack"
    /\ stack # <<>>
    /\ Top.courseIndex <= Len(courses)
    /\ PendingCandidates(Top) = {}
    /\ FirstThrow(Top.daysToTry, courses[Top.courseIndex]) <= Len(Top.daysToTry)
    /\ stack' = <<>>
    /\ result' = SolverError
    /\ pc' = "done"
    /\ UNCHANGED <<courses, btResult, sortedCourses, relaxedIndex, schedule,
                   teacherAvailability, hoursPlaced, daysToTry>>
    /\ UNCHANGED <<dayChoice, earlier>>
    /\ UNCHANGED <<greedyVars, timetableVars, managerVars, appVars>>

----------------------------------------------------------------------------
(* relaxedScheduling *)

\* a comparator without the tie-break
CompareDurationsOnly(a, b) == b.duration - a.duration

\* the comparator of the sort: negative when a goes before b
CompareCourses(a, b) ==
    IF b.duration # a.duration
    THEN b.duration - a.duration
    ELSE Len(a.preferredDays) - Len(b.preferredDays)

\* Array.prototype.sort is stable: an element goes after every element
\* already placed that does not compare greater than it
RECURSIVE InsertSorted(_, _)
InsertSorted(c, s) ==
    IF s = <<>> THEN <<c>>
    ELSE IF CompareCourses(c, Head(s)) < 0 THEN <<c>> \o s
    ELSE <<Head(s)>> \o InsertSorted(c, Tail(s))

RECURSIVE SortCourses(_)
SortCourses(s) ==
    IF s = <<>> THEN <<>>
    ELSE CHOOSE sorted \in
            { InsertSorted(c, rest) :
                c \in {s[Len(s)]},
                rest \in {SortCourses(SubSeq(s, 1, Len(s) - 1))} } : TRUE

\* a day order that ignores the preferences
AllDaysInOrder(course) == days

RelaxedDaysToTry(course) ==
    course.preferredDays
    \o SelectSeq(days, LAMBDA d : d \notin Range(course.preferredDays))

CanScheduleRelaxedUnchecked(availability, day, startHour, duration) == TRUE

CanScheduleRelaxed(availability, day, startHour, duration) ==
    \A h \in 0..(duration - 1) : availability[day][startHour + h]

RelaxedCandidates(course, availability) ==
    LET dtt == RelaxedDaysToTry(course)
    IN  { c \in (1..Len(dtt)) \X (FirstHour..LastStart(course)) :
            /\ c[1] < FirstThrow(dtt, course)
            /\ CanScheduleRelaxed(availability, dtt[c[1]], c[2], course.duration) }

\* no block before the first day that is no key of teacherAvailability
RelaxedThrows(course, availability) ==
    /\ RelaxedCandidates(course, availability) = {}
    /\ FirstThrow(RelaxedDaysToTry(course), course) <= Len(RelaxedDaysToTry(course))

\* a solve that hands back what relaxedScheduling had placed and the course
\* it gave up on
PartialResult(sched, course) ==
    [success |-> FALSE,
     message |-> "Could not create a valid schedule. Try reducing constraints or removing some courses.",
     schedule |-> sched, unplaced |-> <<course>>]

\* relaxedScheduling returns { success: false, message } for the course it
\* could not place; solve answers with its own message and nothing else
FailedResult(sched, course) ==
    [success |-> FALSE,
     message |-> "Could not create a valid schedule. Try reducing constraints or removing some courses."]

\* solve: the exact search failed; relaxedScheduling sorts a copy of the
\* list and starts from an empty schedule and a fresh availability map
RelaxedBegin ==
    /\ pc = "relaxed-begin"
    /\ sortedCourses' = SortCourses(courses)
    /\ schedule' = <<>>
    /\ teacherAvailability' = initializeAvailability
    /\ relaxedIndex' = 1
    /\ pc' = "relaxed"
    /\ UNCHANGED <<courses, stack, btResult, hoursPlaced, daysToTry, result>>
    /\ UNCHANGED <<dayChoice, earlier>>
    /\ UNCHANGED <<greedyVars, timetableVars, managerVars, appVars>>

\* one iteration of the course loop that finds a contiguous block
RelaxedPlace ==
    /\ pc = "relaxed"
    /\ relaxedIndex <= Len(sortedCourses)
    /\ \E course \in {sortedCourses[relaxedIndex]} :
       \E cands \in {RelaxedCandidates(course, teacherAvailability)} :
           /\ cands # {}
           /\ \E c \in {FirstCandidate(cands)} :
              LET day == RelaxedDaysToTry(course)[c[1]]
              IN  /\ teacherAvailability' =
                        MarkUsed(teacherAvailability, day, c[2]..(c[2] + course.duration - 1))
                  /\ schedule' = schedule \o BlockEntries(course, day, c[2])
    /\ relaxedIndex' = relaxedIndex + 1
    /\ UNCHANGED <<courses, pc, stack, btResult, sortedCourses, hoursPlaced,
                   daysToTry, result>>
    /\ UNCHANGED <<dayChoice, earlier>>
    /\ UNCHANGED <<greedyVars, timetableVars, managerVars, appVars>>

\* no contiguous block and duration > 1: tryToSplitCourse is entered
RelaxedSplitBegin ==
    /\ pc = "relaxed"
    /\ relaxedIndex <= Len(sortedCourses)
    /\ LET course == sortedCourses[relaxedIndex]
       IN  /\ RelaxedCandidates(course, teacherAvailability) = {}
           /\ ~ RelaxedThrows(course, teacherAvailability)
           /\ course.duration > 1
    /\ hoursPlaced' = 0
    /\ daysToTry' = days
    /\ pc' = "split"
    /\ UNCHANGED <<courses, stack, btResult, sortedCourses, relaxedIndex, schedule,
                   teacherAvailability, result>>
    /\ UNCHANGED <<dayChoice, earlier>>
    /\ UNCHANGED <<greedyVars, timetableVars, managerVars, appVars>>

\* no contiguous block and nothing to split: relaxedScheduling and solve fail
RelaxedFail ==
    /\ pc = "relaxed"
    /\ relaxedIndex <= Len(sortedCourses)
    /\ LET course == sortedCourses[relaxedIndex]
       IN  /\ RelaxedCandidates(course, teacherAvailability) = {}
           /\ ~ RelaxedThrows(course, teacherAvailability)
           /\ ~ (course.duration > 1)
    /\ result' = FailedResult(schedule, sortedCourses[relaxedIndex])
    /\ pc' = "done"
    /\ UNCHANGED <<courses, stack, btResult, sortedCourses, relaxedIndex, schedule,
                   teacherAvailability, hoursPlaced, daysToTry>>
    /\ UNCHANGED <<dayChoice, earlier>>
    /\ UNCHANGED <<greedyVars, timetableVars, managerVars, appVars>>

\* the day loop reaches a day that is no key of teacherAvailability
RelaxedThrow ==
    /\ pc = "relaxed"
    /\ relaxedIndex <= Len(sortedCourses)
    /\ RelaxedThrows(sortedCourses[relaxedIndex], teacherAvailability)
    /\ result' = SolverError
    /\ pc' = "done"
    /\ UNCHANGED <<courses, stack, btResult, sortedCourses, relaxedIndex, schedule,
                   teacherAvailability, hoursPlaced, daysToTry>>
    /\ UNCHANGED <<dayChoice, earlier>>
    /\ UNCHANGED <<greedyVars, timetableVars, managerVars, appVars>>

\* every course was placed
RelaxedSuccess ==
    /\ pc = "relaxed"
    /\ relaxedIndex > Len(sortedCourses)
    /\ result' = [success |-> TRUE, schedule |-> schedule,
                   message |-> "Schedule created with some relaxed constraints"]
    /\ pc' = "done"
    /\ UNCHANGED <<courses, stack, btResult, sortedCourses, relaxedIndex, schedule,
                   teacherAvailability, hoursPlaced, daysToTry>>
    /\ UNCHANGED <<dayChoice, earlier>>
    /\ UNCHANGED <<greedyVars, timetableVars, managerVars, appVars>>

----------------------------------------------------------------------------
(* tryToSplitCourse *)

SplitSucceededAnyHour(placed, originalDuration) == placed > 0

\* return hoursPlaced >= originalDuration
SplitSucceeded(placed, originalDuration) == placed >= originalDuration

SplitCopy(course) == course @@ [originalDuration |-> course.duration]

\* the free hours of a day in the order of `for (hour = 8; hour < 17; hour++)`
FreeHours(availability, day) ==
    SelectSeq([i \in 1..(EndHour - FirstHour) |-> FirstHour + i - 1],
              LAMBDA h : availability[day][h])

Min(a, b) == IF a <= b THEN a ELSE b

\* a day selection that ignores the source of the numbers
AnyDayIndex(choice, length) == 1..length

\* Math.floor(Math.random() * daysToTry.length): any index when Math.random
\* is random, the first when it always returns 0, the last when it always
\* returns a number just below 1
DayIndexChoices(choice, length) ==
    IF choice = "first" THEN {1}
    ELSE IF choice = "last" THEN {length}
    ELSE 1..length

\* a loop that never gives up a day
EveryDayKept(dtt, dayIndex, placedOnThisDay) == dtt

\* `if (!placedOnThisDay) daysToTry.splice(dayIndex, 1)`
RemainingDays(dtt, dayIndex, placedOnThisDay) ==
    IF placedOnThisDay THEN dtt
    ELSE SubSeq(dtt, 1, dayIndex - 1) \o SubSeq(dtt, dayIndex + 1, Len(dtt))

\* one iteration of the while loop, on the day Math.random selects
SplitStep ==
    /\ pc = "split"
    /\ hoursPlaced < sortedCourses[relaxedIndex].duration
    /\ Len(daysToTry) > 0
    /\ \E dayIndex \in DayIndexChoices(dayChoice, Len(daysToTry)) :
          LET course == sortedCourses[relaxedIndex]
              day == daysToTry[dayIndex]
              free == FreeHours(teacherAvailability, day)
              n == Min(Len(free), course.duration - hoursPlaced)
              placedOnThisDay == n > 0
          IN  /\ teacherAvailability' =
                    MarkUsed(teacherAvailability, day, {free[i] : i \in 1..n})
              /\ schedule' = schedule \o
                    [i \in 1..n |-> Entry(SplitCopy(course), day, free[i], TRUE)]
              /\ hoursPlaced' = hoursPlaced + n
              /\ daysToTry' = RemainingDays(daysToTry, dayIndex, placedOnThisDay)
    /\ UNCHANGED <<courses, pc, stack, btResult, sortedCourses, relaxedIndex, result>>
    /\ UNCHANGED <<dayChoice, earlier>>
    /\ UNCHANGED <<greedyVars, timetableVars, managerVars, appVars>>

\* the while loop ends: return hoursPlaced >= originalDuration, and the
\* `if (!placed)` of relaxedScheduling
SplitReturn ==
    /\ pc = "split"
    /\ ~ (hoursPlaced < sortedCourses[relaxedIndex].duration /\ Len(daysToTry) > 0)
    /\ IF SplitSucceeded(hoursPlaced, sortedCourses[relaxedIndex].duration)
       THEN /\ relaxedIndex' = relaxedIndex + 1
            /\ pc' = "relaxed"
            /\ UNCHANGED result
       ELSE /\ result' = FailedResult(schedule, sortedCourses[relaxedIndex])
            /\ pc' = "done"
            /\ UNCHANGED relaxedIndex
    /\ UNCHANGED <<courses, stack, btResult, sortedCourses, schedule,
                   teacherAvailability, hoursPlaced, daysToTry>>
    /\ UNCHANGED <<dayChoice, earlier>>
    /\ UNCHANGED <<greedyVars, timetableVars, managerVars, appVars>>

----------------------------------------------------------------------------

Next ==
    \/ SolveBegin
    \/ BacktrackBaseCase
    \/ BacktrackPlace
    \/ BacktrackFail
    \/ RelaxedBegin
    \/ RelaxedPlace
    \/ RelaxedSplitBegin
    \/ RelaxedFail
    \/ RelaxedSuccess
    \/ SplitStep
    \/ SplitReturn

Spec == Init /\ [][Next]_vars

\* solve runs to its end: no statement waits, so a step that can be taken
\* is taken
FairSpec == Spec /\ WF_vars(Next)

----------------------------------------------------------------------------
(* The greedy strategy solver: inputs *)

MaxGreedyCourses == 3

\* a timePreferences array (the other value of the field is null)
TimeList(list) == [times |-> list]

\* courses as createCourse builds them; days without repetition
GreedyShapes ==
    { [teacher |-> "T1", hours |-> 3, days |-> <<>>, timePreferences |-> Null],
      [teacher |-> "T1", hours |-> 2, days |-> <<>>, timePreferences |-> Null],
      [teacher |-> "T2", hours |-> 1, days |-> <<>>, timePreferences |-> Null],
      [teacher |-> "T2", hours |-> 1, days |-> <<"Tuesday">>, timePreferences |-> TimeList(<<8>>)],
      [teacher |-> "T2", hours |-> 1, days |-> <<"Monday">>, timePreferences |-> TimeList(<<9>>)],
      [teacher |-> "T1", hours |-> 4, days |-> <<>>, timePreferences |-> TimeList(<<8, 9>>)],
      [teacher |-> "T1", hours |-> 4, days |-> <<"Monday", "Tuesday">>, timePreferences |-> Null],
      [teacher |-> "T2", hours |-> 4, days |-> <<"Monday", "Tuesday">>, timePreferences |-> TimeList(<<8>>)],
      [teacher |-> "T1", hours |-> 6, days |-> <<>>, timePreferences |-> Null],
      [teacher |-> "T2", hours |-> 5, days |-> <<>>, timePreferences |-> Null],
      [teacher |-> "T2", hours |-> 3, days |-> <<>>, timePreferences |-> TimeList(<<9>>)] }

GreedyCourse(shape, i) ==
    [courseCode |-> i, courseName |-> i, teacher |-> shape.teacher, hours |-> shape.hours,
     days |-> shape.days, timePreferences |-> shape.timePreferences]

GreedyLists ==
    UNION { { [i \in 1..n |-> GreedyCourse(f[i], i)] : f \in [1..n -> GreedyShapes] }
            : n \in 0..MaxGreedyCourses }

----------------------------------------------------------------------------
(* The greedy strategy solver: checks *)

IndexOf(seq, x) == IF x \in Range(seq) THEN CHOOSE i \in DOMAIN seq : seq[i] = x ELSE 0

Abs(n) == IF n < 0 THEN -n ELSE n

\* a test that also accepts slots two apart
areWithinTwoTimeSlots(time1, time2) ==
    Abs(IndexOf(timeSlots, time1) - IndexOf(timeSlots, time2)) \in {1, 2}

areConsecutiveTimeSlots(time1, time2) ==
    Abs(IndexOf(timeSlots, time1) - IndexOf(timeSlots, time2)) = 1

hasTeacherConflict(g, teacher, day, time) ==
    \E d \in DaySet, t \in SlotSet :
        /\ g[d][t] # Null
        /\ g[d][t].teacher = teacher
        /\ ((d = day /\ t = time) \/ (d = day /\ areConsecutiveTimeSlots(t, time)))

canAssignOccupied(g, course, day, time) ==
    /\ ~ hasTeacherConflict(g, course.teacher, day, time)
    /\ (course.timePreferences # Null => time \in Range(course.timePreferences.times))

canAssign(g, course, day, time) ==
    /\ g[day][time] = Null
    /\ ~ hasTeacherConflict(g, course.teacher, day, time)
    /\ (course.timePreferences # Null => time \in Range(course.timePreferences.times))

canAssignConsecutive(g, course, day, startTime, n) ==
    LET startIndex == IndexOf(timeSlots, startTime)
    IN  /\ ~ (startIndex = 0 \/ startIndex - 1 + n > Len(timeSlots))
        /\ \A i \in 0..(n - 1) : canAssign(g, course, day, timeSlots[startIndex + i])

canAssignToAllDays(g, course, dayList, time) ==
    \A i \in DOMAIN dayList : canAssign(g, course, dayList[i], time)

----------------------------------------------------------------------------
(* The greedy strategy solver: strategies.  A strategy maps the grid and    *)
(* the list of the writes made so far to [ok, grid, writes].                *)

CellOf(course) ==
    [courseCode |-> course.courseCode, courseName |-> course.courseName,
     teacher |-> course.teacher]

\* this.grid[day][time] = { courseCode, courseName, teacher }
\* an assignment that is left out
WriteNothing(st, course, day, time) == st

WriteCell(st, course, day, time) ==
    [ok |-> st.ok,
     grid |-> [st.grid EXCEPT ![day][time] = CellOf(course)],
     writes |-> Append(st.writes, [day |-> day, time |-> time, before |-> st.grid[day][time],
                                   course |-> course.courseCode])]

\* dayList.forEach(day => this.grid[day][time] = ...)
RECURSIVE WriteDays(_, _, _, _)
WriteDays(st, course, dayList, time) ==
    IF dayList = <<>> THEN st
    ELSE WriteDays(WriteCell(st, course, Head(dayList), time), course, Tail(dayList), time)

\* the slots from startIndex on, one after the other
RECURSIVE WriteSlots(_, _, _, _, _)
WriteSlots(st, course, day, startIndex, n) ==
    IF n = 0 THEN st
    ELSE WriteSlots(WriteCell(st, course, day, timeSlots[startIndex]), course, day,
                    startIndex + 1, n - 1)

Failed(st) == [st EXCEPT !.ok = FALSE]

Done(st) == [st EXCEPT !.ok = TRUE]

\* the first slot at which the course fits on every day of the list
SameTimeStrategy(st, course, dayList) ==
    LET fits == {i \in DOMAIN timeSlots : canAssignToAllDays(st.grid, course, dayList, timeSlots[i])}
    IN  IF fits = {} THEN Failed(st)
        ELSE Done(WriteDays(st, course, dayList, timeSlots[Minimum(fits)]))

\* a strategy that writes Wednesday before it has looked at the other days
applyMWFStrategyDayByDay(st, course) ==
    LET mwfDays == <<"Monday", "Wednesday", "Friday">>
        fits == {i \in DOMAIN timeSlots :
                    canAssign(st.grid, course, "Wednesday", timeSlots[i])}
    IN  IF fits = {} THEN Failed(st)
        ELSE IF canAssignToAllDays(st.grid, course, mwfDays, timeSlots[Minimum(fits)])
        THEN Done(WriteDays(st, course, mwfDays, timeSlots[Minimum(fits)]))
        ELSE Failed(WriteDays(st, course, <<"Wednesday">>, timeSlots[Minimum(fits)]))

applyMWFStrategy(st, course) ==
    SameTimeStrategy(st, course, <<"Monday", "Wednesday", "Friday">>)

applyTThStrategy(st, course) ==
    SameTimeStrategy(st, course, <<"Tuesday", "Thursday">>)

applySingleDayStrategy(st, course) ==
    LET fits == {c \in (DOMAIN days) \X (DOMAIN timeSlots) :
                    canAssign(st.grid, course, days[c[1]], timeSlots[c[2]])}
    IN  IF fits = {} THEN Failed(st)
        ELSE LET c == FirstCandidate(fits)
             IN  Done(WriteCell(st, course, days[c[1]], timeSlots[c[2]]))

\* the `for (const time of this.timeSlots)` loop of the individual slots:
\* acc = [st, hoursAssigned]
RECURSIVE IndividualSlots(_, _, _, _, _)
IndividualSlots(acc, course, day, i, hoursToAssign) ==
    IF i > Len(timeSlots) \/ acc.hoursAssigned >= hoursToAssign THEN acc
    ELSE IF canAssign(acc.st.grid, course, day, timeSlots[i])
         THEN IndividualSlots([st |-> WriteCell(acc.st, course, day, timeSlots[i]),
                               hoursAssigned |-> acc.hoursAssigned + 1],
                              course, day, i + 1, hoursToAssign)
         ELSE IndividualSlots(acc, course, day, i + 1, hoursToAssign)

CeilDiv(a, b) == (a + b - 1) \div b

\* the `for (const day of days)` loop, from position p with remainingHours
RECURSIVE DistributedDays(_, _, _, _, _, _)
DistributedDays(st, course, dayList, p, hoursPerDay, remainingHours) ==
    IF p > Len(dayList) \/ remainingHours <= 0
    THEN IF remainingHours = 0 THEN Done(st) ELSE Failed(st)
    ELSE LET day == dayList[p]
             hoursToAssign == Min(hoursPerDay, remainingHours)
             starts == {i \in 1..(Len(timeSlots) - hoursToAssign + 1) :
                           canAssignConsecutive(st.grid, course, day, timeSlots[i], hoursToAssign)}
         IN  IF starts # {}
             THEN DistributedDays(WriteSlots(st, course, day, Minimum(starts), hoursToAssign),
                                  course, dayList, p + 1, hoursPerDay,
                                  remainingHours - hoursToAssign)
             ELSE LET acc == IndividualSlots([st |-> st, hoursAssigned |-> 0],
                                             course, day, 1, hoursToAssign)
                  IN  IF acc.hoursAssigned < hoursToAssign
                      THEN Failed(acc.st)
                      ELSE DistributedDays(acc.st, course, dayList, p + 1, hoursPerDay,
                                           remainingHours - acc.hoursAssigned)

applyDistributedHoursStrategy(st, course, dayList) ==
    DistributedDays(st, course, dayList, 1, CeilDiv(course.hours, Len(dayList)), course.hours)

applyCustomDaysStrategy(st, course) ==
    LET validDays == SelectSeq(course.days, LAMBDA d : d \in DaySet)
    IN  IF Len(validDays) = 0 THEN Failed(st)
        ELSE IF course.hours # Len(validDays)
             THEN applyDistributedHoursStrategy(st, course, validDays)
             ELSE SameTimeStrategy(st, course, validDays)

apply2Plus2Strategy(st, course) ==
    LET group1 == <<"Monday", "Wednesday">>
        group2 == <<"Tuesday", "Thursday">>
        fits1 == {i \in DOMAIN timeSlots : canAssignToAllDays(st.grid, course, group1, timeSlots[i])}
        fits2 == {i \in DOMAIN timeSlots : canAssignToAllDays(st.grid, course, group2, timeSlots[i])}
    IN  IF fits1 = {} \/ fits2 = {} THEN Failed(st)
        ELSE Done(WriteDays(WriteDays(st, course, group1, timeSlots[Minimum(fits1)]),
                            course, group2, timeSlots[Minimum(fits2)]))

applyGeneralAssignmentStrategy(st, course) ==
    IF course.hours = 5
    THEN applyCustomDaysStrategy(st, [course EXCEPT !.days = days])
    ELSE IF course.hours = 4
         THEN LET first == applyCustomDaysStrategy(
                               st, [course EXCEPT !.days = SubSeq(days, 1, 4)])
              IN  IF first.ok THEN first ELSE apply2Plus2Strategy(first, course)
         ELSE applyDistributedHoursStrategy(st, course, days)

applySchedulingStrategies(st, course) ==
    IF course.hours = 3 /\ Len(course.days) = 0 THEN applyMWFStrategy(st, course)
    ELSE IF course.hours = 2 /\ Len(course.days) = 0 THEN applyTThStrategy(st, course)
    ELSE IF course.hours = 1 /\ Len(course.days) = 0 THEN applySingleDayStrategy(st, course)
    ELSE IF Len(course.days) > 0 THEN applyCustomDaysStrategy(st, course)
    ELSE applyGeneralAssignmentStrategy(st, course)

----------------------------------------------------------------------------
(* The greedy strategy solver: solve *)

\* the comparator of sortCoursesByConstraints
CompareConstraints(a, b) ==
    LET aHasSpecificDays == Len(a.days) > 0
        bHasSpecificDays == Len(b.days) > 0
    IN  IF aHasSpecificDays /\ ~ bHasSpecificDays THEN -1
        ELSE IF ~ aHasSpecificDays /\ bHasSpecificDays THEN 1
        ELSE IF a.timePreferences # Null /\ b.timePreferences = Null THEN -1
        ELSE IF a.timePreferences = Null /\ b.timePreferences # Null THEN 1
        ELSE b.hours - a.hours

RECURSIVE InsertByConstraints(_, _)
InsertByConstraints(c, s) ==
    IF s = <<>> THEN <<c>>
    ELSE IF CompareConstraints(c, Head(s)) < 0 THEN <<c>> \o s
    ELSE <<Head(s)>> \o InsertByConstraints(c, Tail(s))

RECURSIVE sortCoursesByConstraints(_)
sortCoursesByConstraints(s) ==
    IF s = <<>> THEN <<>>
    ELSE InsertByConstraints(s[Len(s)], sortCoursesByConstraints(SubSeq(s, 1, Len(s) - 1)))

\* a sort that works on the argument itself
ArgumentSortedInPlace(list) == sortCoursesByConstraints(list)

\* `[...courses].sort(...)`: the copy is sorted, the argument keeps its order
ArgumentAfterSort(list) == list

\* a new solver and the list its solve is called with
GreedyStart(lists) ==
    /\ SolverIdle
    /\ TimetableIdle
    /\ ManagerIdle
    /\ AppIdle
    /\ gCourses \in lists
    /\ gpc = "start"
    /\ grid = initializeGrid
    /\ gSorted = <<>>
    /\ gIndex = 0
    /\ unassignedCourses = <<>>
    /\ writes = <<>>
    /\ gResult = Null
    /\ gridId = FirstGridId
    /\ gEarlier = Null

GreedyInit == GreedyStart(GreedyLists)

\* solve: the grid is reset and the courses are sorted
GreedySolveBegin ==
    /\ gpc = "start"
    /\ grid' = initializeGrid
    /\ gridId' = NewGridId(gridId)
    /\ gSorted' = sortCoursesByConstraints(gCourses)
    /\ unassignedCourses' = <<>>
    /\ gIndex' = 1
    /\ writes' = <<>>
    /\ gpc' = "assign"
    /\ gCourses' = ArgumentAfterSort(gCourses)
    /\ UNCHANGED <<gResult, gEarlier>>
    /\ UNCHANGED <<solverVars, timetableVars, managerVars, appVars>>

\* one iteration of `for (const course of sortedCourses)`
GreedyAssign ==
    /\ gpc = "assign"
    /\ gIndex <= Len(gSorted)
    /\ \E r \in {applySchedulingStrategies([ok |-> TRUE, grid |-> grid, writes |-> writes],
                                            gSorted[gIndex])} :
          /\ grid' = r.grid
          /\ writes' = r.writes
          /\ unassignedCourses' =
                IF ~ r.ok THEN Append(unassignedCourses, gSorted[gIndex])
                ELSE unassignedCourses
    /\ gIndex' = gIndex + 1
    /\ UNCHANGED <<gCourses, gpc, gSorted, gResult, gridId, gEarlier>>
    /\ UNCHANGED <<solverVars, timetableVars, managerVars, appVars>>

\* return { grid: this.grid, unassignedCourses }
GreedyReturn ==
    /\ gpc = "assign"
    /\ gIndex > Len(gSorted)
    /\ gResult' = [grid |-> grid, unassignedCourses |-> unassignedCourses]
    /\ gpc' = "done"
    /\ UNCHANGED <<gCourses, grid, gSorted, gIndex, unassignedCourses, writes,
                   gridId, gEarlier>>
    /\ UNCHANGED <<solverVars, timetableVars, managerVars, appVars>>

GreedyNext ==
    \/ GreedySolveBegin
    \/ GreedyAssign
    \/ GreedyReturn

GreedySpec == GreedyInit /\ [][GreedyNext]_vars

----------------------------------------------------------------------------
(* The mutable-grid solver (Scheduler.js): inputs *)

MaxQueued == 3

\* courses as addCourseToQueue builds them: the preferences are the
\* selected options of two multi-selects
TimetableShapes ==
    { [teacher |-> "T1", duration |-> 2, preferredDays |-> <<"Monday">>, preferredTimes |-> <<8, 9>>],
      [teacher |-> "T2", duration |-> 1, preferredDays |-> <<"Monday">>, preferredTimes |-> <<9>>],
      [teacher |-> "T1", duration |-> 1, preferredDays |-> <<"Monday", "Tuesday">>, preferredTimes |-> <<8>>],
      [teacher |-> "T2", duration |-> 3, preferredDays |-> <<"Monday">>, preferredTimes |-> <<15, 16>>],
      [teacher |-> "T2", duration |-> 2, preferredDays |-> <<>>, preferredTimes |-> <<8>>] }

QueuedCourse(shape, i) ==
    [id |-> i, teacher |-> shape.teacher, duration |-> shape.duration,
     preferredDays |-> shape.preferredDays, preferredTimes |-> shape.preferredTimes]

QueuedLists ==
    UNION { { [i \in 1..n |-> QueuedCourse(f[i], i)] : f \in [1..n -> TimetableShapes] }
            : n \in 0..MaxQueued }

----------------------------------------------------------------------------
(* The mutable-grid solver (Scheduler.js): operations *)

\* course.duration || 1
DurationOf(course) == IF course.duration = 0 THEN 1 ELSE course.duration

\* the slots a placement at (day, time) covers
CoveredSlots(course, time) ==
    {slotHours[IndexOf(slotHours, time) + i] : i \in 0..(DurationOf(course) - 1)}

canPlaceCourse(sched, course, day, time) ==
    LET duration == DurationOf(course)
        timeIndex == IndexOf(slotHours, time) - 1
    IN  /\ sched[day][time] = Null
        /\ duration > 1 =>
              /\ ~ (timeIndex + duration > Len(slotHours))
              /\ \A i \in 1..(duration - 1) : sched[day][slotHours[timeIndex + 1 + i]] = Null
        /\ \A d \in DaySet :
              /\ ~ (sched[d][time] # Null /\ sched[d][time].teacher = course.teacher)
              /\ duration > 1 =>
                    \A i \in 1..(duration - 1) :
                        LET nextTimeSlot == slotHours[timeIndex + 1 + i]
                        IN  ~ (sched[d][nextTimeSlot] # Null
                               /\ sched[d][nextTimeSlot].teacher = course.teacher)

removeCourseFirstSlot(sched, course, day, time) ==
    [sched EXCEPT ![day] = [t \in SlotHourSet |-> IF t = time THEN Null ELSE @[t]]]

placeCourse(sched, course, day, time) ==
    [sched EXCEPT ![day] =
        [t \in SlotHourSet |-> IF t \in CoveredSlots(course, time) THEN course ELSE @[t]]]

removeCourse(sched, course, day, time) ==
    [sched EXCEPT ![day] =
        [t \in SlotHourSet |-> IF t \in CoveredSlots(course, time) THEN Null ELSE @[t]]]

cloneSchedule(sched) == [d \in DaySet |-> [t \in SlotHourSet |-> sched[d][t]]]

\* the day-time combinations of findAvailableSlots; shuffleArray decides the
\* order in which the caller's loop visits them
findAvailableSlots(course) ==
    LET eligibleDays == IF Len(course.preferredDays) > 0 THEN course.preferredDays ELSE days
        eligibleTimes == IF Len(course.preferredTimes) > 0 THEN course.preferredTimes ELSE slotHours
    IN  Range(eligibleDays) \X Range(eligibleTimes)

\* the comparator of the sort in solve
ConstraintCount(course) == Len(course.preferredDays) + Len(course.preferredTimes)

RECURSIVE InsertMostConstrained(_, _)
InsertMostConstrained(c, s) ==
    IF s = <<>> THEN <<c>>
    ELSE IF ConstraintCount(Head(s)) - ConstraintCount(c) < 0 THEN <<c>> \o s
    ELSE <<Head(s)>> \o InsertMostConstrained(c, Tail(s))

RECURSIVE SortMostConstrained(_)
SortMostConstrained(s) ==
    IF s = <<>> THEN <<>>
    ELSE InsertMostConstrained(s[Len(s)], SortMostConstrained(SubSeq(s, 1, Len(s) - 1)))

NoSlot == <<"none", 0>>

\* the activation record of backtrackingSchedule(coursesToSchedule, index):
\* the slots its loop has not visited yet, the slot of the placement a
\* recursive call is running on, and the schedule as it was on entry
Call(index, entry) ==
    [index |-> index,
     untried |-> IF index <= Len(tSorted) THEN findAvailableSlots(tSorted[index]) ELSE {},
     slot |-> NoSlot,
     entry |-> entry]

CallOnTop == calls[Len(calls)]

\* a sort that works on this.courses itself
QueueSortedInPlace(list) == SortMostConstrained(list)

\* `[...this.courses].sort(...)`: this.courses keeps its order
QueueAfterSort(list) == list

\* a new solver and the courses addCourse has queued
TimetableStart(lists) ==
    /\ SolverIdle
    /\ GreedyIdle
    /\ ManagerIdle
    /\ AppIdle
    /\ queued \in lists
    /\ tpc = "start"
    /\ timetable = emptyTimetable
    /\ tSorted = <<>>
    /\ calls = <<>>
    /\ tResult = Null
    /\ tEarlier = Null

TimetableInit == TimetableStart(QueuedLists)

\* solve: reset the schedule, sort, call backtrackingSchedule(sortedCourses)
TimetableSolveBegin ==
    /\ tpc = "start"
    /\ timetable' = emptyTimetable
    /\ tSorted' = SortMostConstrained(queued)
    /\ calls' = <<[index |-> 1,
                   untried |-> IF queued # <<>>
                               THEN findAvailableSlots(SortMostConstrained(queued)[1]) ELSE {},
                   slot |-> NoSlot,
                   entry |-> emptyTimetable]>>
    /\ tpc' = "search"
    /\ queued' = QueueAfterSort(queued)
    /\ UNCHANGED <<tResult, tEarlier>>
    /\ UNCHANGED <<solverVars, greedyVars, managerVars, appVars>>

\* base case: the result with the clone of the schedule goes back through
\* every caller
TimetableBaseCase ==
    /\ tpc = "search"
    /\ calls # <<>>
    /\ CallOnTop.index > Len(tSorted)
    /\ tResult' = [success |-> TRUE, schedule |-> cloneSchedule(timetable), conflicts |-> <<>>]
    /\ calls' = <<>>
    /\ tpc' = "done"
    /\ UNCHANGED <<queued, timetable, tSorted, tEarlier>>
    /\ UNCHANGED <<solverVars, greedyVars, managerVars, appVars>>

\* the loop visits a slot that passes canPlaceCourse: the course is placed
\* and the recursive call is entered
TimetablePlace ==
    /\ tpc = "search"
    /\ calls # <<>>
    /\ CallOnTop.index <= Len(tSorted)
    /\ \E s \in CallOnTop.untried :
          LET course == tSorted[CallOnTop.index]
          IN  /\ canPlaceCourse(timetable, course, s[1], s[2])
              /\ timetable' = placeCourse(timetable, course, s[1], s[2])
              /\ calls' = [calls EXCEPT ![Len(calls)] =
                              [@ EXCEPT !.untried = @ \ {s}, !.slot = s]]
                          \o <<Call(CallOnTop.index + 1,
                                    placeCourse(timetable, course, s[1], s[2]))>>
    /\ UNCHANGED <<queued, tpc, tSorted, tResult, tEarlier>>
    /\ UNCHANGED <<solverVars, greedyVars, managerVars, appVars>>

\* the loop visits a slot that does not pass canPlaceCourse
TimetableSkip ==
    /\ tpc = "search"
    /\ calls # <<>>
    /\ CallOnTop.index <= Len(tSorted)
    /\ \E s \in CallOnTop.untried :
          /\ ~ canPlaceCourse(timetable, tSorted[CallOnTop.index], s[1], s[2])
          /\ calls' = [calls EXCEPT ![Len(calls)] = [@ EXCEPT !.untried = @ \ {s}]]
    /\ UNCHANGED <<queued, tpc, timetable, tSorted, tResult, tEarlier>>
    /\ UNCHANGED <<solverVars, greedyVars, managerVars, appVars>>

\* a search that gives up as soon as one call finds no slot, without going
\* on with the loops of its callers
TimetableFailNoRetry ==
    /\ tpc = "search"
    /\ calls # <<>>
    /\ CallOnTop.index <= Len(tSorted)
    /\ CallOnTop.untried = {}
    /\ tResult' = [success |-> FALSE, schedule |-> cloneSchedule(emptyTimetable),
                    conflicts |-> <<tSorted[1]>>]
    /\ timetable' = emptyTimetable
    /\ calls' = <<>>
    /\ tpc' = "done"
    /\ UNCHANGED <<queued, tSorted, tEarlier>>
    /\ UNCHANGED <<solverVars, greedyVars, managerVars, appVars>>

\* the loop is over: the call returns failure; its caller removes the
\* course it had placed and goes on with its loop
TimetableFail ==
    /\ tpc = "search"
    /\ calls # <<>>
    /\ CallOnTop.index <= Len(tSorted)
    /\ CallOnTop.untried = {}
    /\ IF Len(calls) = 1
       THEN /\ tResult' = [success |-> FALSE, schedule |-> cloneSchedule(timetable),
                           conflicts |-> <<tSorted[CallOnTop.index]>>]
            /\ calls' = <<>>
            /\ tpc' = "done"
            /\ UNCHANGED timetable
       ELSE LET caller == calls[Len(calls) - 1]
            IN  /\ timetable' = removeCourse(timetable, tSorted[caller.index],
                                             caller.slot[1], caller.slot[2])
                /\ calls' = [SubSeq(calls, 1, Len(calls) - 1) EXCEPT ![Len(calls) - 1] =
                                [@ EXCEPT !.slot = NoSlot]]
                /\ UNCHANGED <<tResult, tpc>>
    /\ UNCHANGED <<queued, tSorted, tEarlier>>
    /\ UNCHANGED <<solverVars, greedyVars, managerVars, appVars>>

TimetableNext ==
    \/ TimetableSolveBegin
    \/ TimetableBaseCase
    \/ TimetablePlace
    \/ TimetableSkip
    \/ TimetableFail

TimetableSpec == TimetableInit /\ [][TimetableNext]_vars

----------------------------------------------------------------------------
(* Repeated solve calls on one solver instance: the caller keeps the result *)
(* of the first call and calls solve again.                                 *)

\* length of the lists of the two calls
MaxResolved == 2

ResolveGreedyLists ==
    UNION { { [i \in 1..n |-> GreedyCourse(f[i], i)] : f \in [1..n -> GreedyShapes] }
            : n \in 0..MaxResolved }

ResolveQueuedLists ==
    UNION { { [i \in 1..n |-> QueuedCourse(f[i], i)] : f \in [1..n -> TimetableShapes] }
            : n \in 0..MaxResolved }

\* the object this.schedule of Scheduler.js refers to; it is never replaced
ThisSchedule == "this.schedule"

\* a cloneSchedule that hands out this.schedule itself
SharedObject == ThisSchedule

\* `const clone = {}`: cloneSchedule returns a new object
cloneObject == "clone"

\* schedule-solver.js: solve(courses) is called again; result.grid of the
\* first call is the object this.grid referred to when it returned
GreedySolveAgain ==
    /\ gpc = "done"
    /\ gEarlier = Null
    /\ gCourses' \in ResolveGreedyLists
    /\ gEarlier' = [id |-> gridId, grid |-> gResult.grid]
    /\ gpc' = "start"
    /\ UNCHANGED <<grid, gSorted, gIndex, unassignedCourses, writes, gResult, gridId>>
    /\ UNCHANGED <<solverVars, timetableVars, managerVars, appVars>>

\* Scheduler.js: solve() is called again on the same this.courses;
\* result.schedule of the first call is the object cloneSchedule returned
TimetableSolveAgain ==
    /\ tpc = "done"
    /\ tEarlier = Null
    /\ tEarlier' = [object |-> cloneObject, schedule |-> tResult.schedule,
                     success |-> tResult.success]
    /\ tpc' = "start"
    /\ UNCHANGED <<queued, timetable, tSorted, calls, tResult>>
    /\ UNCHANGED <<solverVars, greedyVars, managerVars, appVars>>

\* what the grid object of the first call holds now: the cells of this.grid
\* when this.grid still refers to it
EarlierGridNow == IF gEarlier.id = gridId THEN grid ELSE gEarlier.grid

EarlierScheduleNow ==
    IF tEarlier.object = ThisSchedule THEN timetable ELSE tEarlier.schedule

ResolveInit ==
    \/ Init
    \/ GreedyStart(ResolveGreedyLists)
    \/ TimetableStart(ResolveQueuedLists)

ResolveNext ==
    \/ Next
    \/ GreedyNext
    \/ GreedySolveAgain
    \/ TimetableNext
    \/ TimetableSolveAgain

ResolveSpec == ResolveInit /\ [][ResolveNext]_vars

(***************************************************************************)
(* Two calls of ScheduleSolver.solve by ScheduleManager: the course queue  *)
(* of the second call is the queue of the first, or that queue after       *)
(* removeCourse took one course out of it.                                 *)
(***************************************************************************)

\* a removal that puts a second copy of the course at the end of the queue
WithCourseAgain(list, i) == Append(list, list[i])

\* this.courseQueue.filter(course => course.id !== courseId)
WithoutCourse(list, i) == SubSeq(list, 1, i - 1) \o SubSeq(list, i + 1, Len(list))

\* a caller that always passes the same queue again
SameArgument(list) == {list}

\* the queues generateScheduleLocally can pass to the next solve call
NextArguments(list) == {list} \cup { WithoutCourse(list, i) : i \in 1..Len(list) }

\* solve(courses) is called again: schedule, teacherAvailability and the
\* other locals of the call are new
SolveAgain ==
    /\ pc = "done"
    /\ earlier = Null
    /\ earlier' = [courses |-> courses, result |-> result]
    /\ courses' \in NextArguments(courses)
    /\ pc' = "start"
    /\ stack' = <<>>
    /\ btResult' = NoResult
    /\ sortedCourses' = <<>>
    /\ relaxedIndex' = 0
    /\ schedule' = <<>>
    /\ teacherAvailability' = initializeAvailability
    /\ hoursPlaced' = 0
    /\ daysToTry' = <<>>
    /\ result' = NoResult
    /\ UNCHANGED dayChoice
    /\ UNCHANGED <<greedyVars, timetableVars, managerVars, appVars>>

RepeatInit == SolveStart(CourseLists, {"first", "last", "random"})

RepeatNext ==
    \/ Next
    \/ SolveAgain

RepeatSpec == RepeatInit /\ [][RepeatNext]_vars

(***************************************************************************)
(* solve on lists nothing has validated: a preferred day that is not one   *)
(* of this.days, a duration below 1.                                       *)
(***************************************************************************)

UncheckedShapes ==
    { [teacher |-> "T2", duration |-> 1,  preferredDays |-> <<"Monday">>],
      [teacher |-> "T1", duration |-> 10, preferredDays |-> <<>>],
      [teacher |-> "T2", duration |-> 3,  preferredDays |-> <<"Saturday">>],
      [teacher |-> "T2", duration |-> 2,  preferredDays |-> <<"Monday", "Saturday">>],
      [teacher |-> "T2", duration |-> 0,  preferredDays |-> <<>>] }

UncheckedLists ==
    { [i \in 1..(k + Len(head)) |->
          WithId(IF i <= Len(head) THEN head[i] ELSE BaseLoad[i - Len(head)], i)]
      : k \in LoadChoices,
        head \in UNION { [1..n -> UncheckedShapes] : n \in 0..MaxCourses } }

UncheckedInit == SolveStart(UncheckedLists, {"random"})

UncheckedNext ==
    \/ Next
    \/ BacktrackThrow
    \/ RelaxedThrow

UncheckedSpec == UncheckedInit /\ [][UncheckedNext]_vars

(***************************************************************************)
(* ScheduleManager of part_001: generateScheduleLocally around solve, and  *)
(* the export, print and clear buttons.                                    *)
(***************************************************************************)

\* this.currentSchedule after renderTimetable(schedule): its first statement
\* is this.clearTimetable(), which assigns null, and nothing assigns again
renderTimetable(sched) == Null

\* generateScheduleLocally: solve has returned
GenerateLocallyReturn ==
    /\ pc = "done"
    /\ pc' = "returned"
    /\ IF result.success
       THEN /\ currentSchedule' = renderTimetable(result.schedule)
            /\ status' = "Schedule generated successfully"
       ELSE /\ status' = "Could not generate schedule: "
            /\ UNCHANGED currentSchedule
    /\ UNCHANGED <<courses, stack, btResult, sortedCourses, relaxedIndex, schedule,
                   teacherAvailability, hoursPlaced, daysToTry, result, dayChoice, earlier>>
    /\ UNCHANGED <<greedyVars, timetableVars, appVars>>

exportSchedule ==
    /\ pc = "returned"
    /\ status' = IF currentSchedule = Null THEN "No schedule to export"
                  ELSE "Schedule exported successfully"
    /\ UNCHANGED <<solverVars, currentSchedule>>
    /\ UNCHANGED <<greedyVars, timetableVars, appVars>>

printSchedule ==
    /\ pc = "returned"
    /\ status' = IF currentSchedule = Null THEN "No schedule to print" ELSE status
    /\ UNCHANGED <<solverVars, currentSchedule>>
    /\ UNCHANGED <<greedyVars, timetableVars, appVars>>

\* clearQueue: the queue is emptied and clearTimetable runs
clearQueue ==
    /\ pc = "returned"
    /\ pc' = "cleared"
    /\ courses' = <<>>
    /\ currentSchedule' = Null
    /\ UNCHANGED <<stack, btResult, sortedCourses, relaxedIndex, schedule,
                   teacherAvailability, hoursPlaced, daysToTry, result, dayChoice, earlier>>
    /\ UNCHANGED status
    /\ UNCHANGED <<greedyVars, timetableVars, appVars>>

ManagerNext ==
    \/ Next
    \/ GenerateLocallyReturn
    \/ exportSchedule
    \/ printSchedule
    \/ clearQueue

ManagerSpec == Init /\ [][ManagerNext]_vars

(***************************************************************************)
(* The page script of part_000: the course queue, the delayed generation   *)
(* and generateScheduleWithSolver.                                         *)
(***************************************************************************)

MaxAdded == 3

MaxTimers == 2

\* the twelve entries of timeSlots, '8:00 - 9:00' to '19:00 - 20:00', each
\* written as the hour it starts with
appTimeSlots == <<8, 9, 10, 11, 12, 13, 14, 15, 16, 17, 18, 19>>

\* the hour parseInt(preferredTime.split(':')[0]) reads off a time
HourOf == [t \in {"9:00", "21:00"} |-> IF t = "9:00" THEN 9 ELSE 21]

\* the courses the form can add: code, duration, preferredDays, preferredTime
AppShapes ==
    { [code |-> "A", duration |-> 1,  preferredDays |-> "MWF",     preferredTime |-> "Morning"],
      [code |-> "B", duration |-> 2,  preferredDays |-> "Tuesday", preferredTime |-> "9:00"],
      [code |-> "C", duration |-> 4,  preferredDays |-> "",        preferredTime |-> "21:00"],
      [code |-> "D", duration |-> 13, preferredDays |-> "Any",     preferredTime |-> "Evening"] }

\* days.forEach(day => timeSlots.forEach(time => schedule.push(...)))
emptySchedule ==
    [i \in 1..(Len(days) * Len(appTimeSlots)) |->
        [day |-> days[((i - 1) \div Len(appTimeSlots)) + 1],
         time |-> appTimeSlots[((i - 1) % Len(appTimeSlots)) + 1],
         course |-> Null]]

translatePreferredDays(preferredDays) ==
    IF preferredDays = "MWF" THEN <<"Monday", "Wednesday", "Friday">>
    ELSE IF preferredDays = "TTh" THEN <<"Tuesday", "Thursday">>
    ELSE IF preferredDays = "Any" THEN days
    ELSE <<preferredDays>>

\* a slot starts with `${hour}:` exactly when it starts at that hour
findTimeSlot(preferredTime) ==
    IF preferredTime = "Morning" THEN appTimeSlots[1]
    ELSE IF preferredTime = "Afternoon" THEN appTimeSlots[6]
    ELSE IF preferredTime = "Evening" THEN appTimeSlots[10]
    ELSE IF \E k \in 1..Len(appTimeSlots) : appTimeSlots[k] = HourOf[preferredTime]
         THEN HourOf[preferredTime]
         ELSE appTimeSlots[1]

\* schedule.findIndex(slot => slot.day === day && slot.time === time): the
\* positions that match, none when the day is no day of the grid
findIndex(sched, day, time) ==
    {i \in 1..Len(sched) : sched[i].day = day /\ sched[i].time = time}

canPlaceCourseAt(sched, startIndex, duration) ==
    \A i \in 0..(duration - 1) :
        /\ startIndex + i <= Len(sched)
        /\ sched[startIndex + i].day = sched[startIndex].day
        /\ sched[startIndex + i].course = Null

placeCourseAt(sched, startIndex, course) ==
    [i \in 1..Len(sched) |->
        IF i >= startIndex /\ i < startIndex + course.duration
        THEN [sched[i] EXCEPT !.course = course]
        ELSE sched[i]]

\* the start indexes of the preferred days, in order, that can take the course
PreferredStarts(sched, course) ==
    IF course.preferredDays # "" /\ course.preferredTime # ""
    THEN LET preferredDays == translatePreferredDays(course.preferredDays)
             starts == [p \in 1..Len(preferredDays) |->
                          findIndex(sched, preferredDays[p], findTimeSlot(course.preferredTime))]
             usable == {p \in 1..Len(preferredDays) :
                          \E i \in starts[p] : canPlaceCourseAt(sched, i, course.duration)}
         IN  IF usable = {} THEN {} ELSE starts[Minimum(usable)]
    ELSE {}

\* the start indexes of the loop over every day and every time slot
AnyStarts(sched, course) ==
    {i \in 1..Len(sched) : canPlaceCourseAt(sched, i, course.duration)}

\* a loop that leaves out a course it cannot place
RECURSIVE PlaceOrSkip(_, _, _)
PlaceOrSkip(list, sched, argument) ==
    IF list = <<>>
    THEN [argument |-> argument, thrown |-> FALSE, schedule |-> sched, course |-> ""]
    ELSE LET course == Head(list)
             preferred == PreferredStarts(sched, course)
             any == AnyStarts(sched, course)
         IN  IF preferred # {}
             THEN PlaceOrSkip(Tail(list), placeCourseAt(sched, Minimum(preferred), course), argument)
             ELSE IF any # {}
             THEN PlaceOrSkip(Tail(list), placeCourseAt(sched, Minimum(any), course), argument)
             ELSE PlaceOrSkip(Tail(list), sched, argument)

\* `for (const course of courses)`: the schedule that is returned, or the
\* course of the Error that is thrown
RECURSIVE PlaceOrThrow(_, _, _)
PlaceOrThrow(list, sched, argument) ==
    IF list = <<>>
    THEN [argument |-> argument, thrown |-> FALSE, schedule |-> sched, course |-> ""]
    ELSE LET course == Head(list)
             preferred == PreferredStarts(sched, course)
             any == AnyStarts(sched, course)
         IN  IF preferred # {}
             THEN PlaceOrThrow(Tail(list), placeCourseAt(sched, Minimum(preferred), course), argument)
             ELSE IF any # {}
             THEN PlaceOrThrow(Tail(list), placeCourseAt(sched, Minimum(any), course), argument)
             ELSE [argument |-> argument, thrown |-> TRUE, schedule |-> Null,
                   course |-> course.code]

generateScheduleWithSolver(list) == PlaceOrThrow(list, emptySchedule, list)

AppStart ==
    /\ AppIdle
    /\ SolverIdle
    /\ GreedyIdle
    /\ TimetableIdle
    /\ ManagerIdle

\* the form is submitted with all required fields filled in
handleAddCourse ==
    /\ clock < MaxAdded
    /\ clock' = clock + 1
    /\ \E shape \in AppShapes :
         LET newCourse == [id |-> clock', code |-> shape.code, duration |-> shape.duration,
                           preferredDays |-> shape.preferredDays,
                           preferredTime |-> shape.preferredTime]
             queue == Append(state.courseQueue, newCourse)
         IN  state' = [state EXCEPT !.courseQueue = queue,
                                    !.currentStep = IF Len(queue) = 1 THEN 2 ELSE @]
    /\ UNCHANGED <<timers, outcome, statusContainer, loadingIndicator>>
    /\ UNCHANGED <<solverVars, greedyVars, timetableVars, managerVars, pageVars>>

\* the delete button of a queued course
removeCourseFromQueue ==
    /\ \E x \in 1..Len(state.courseQueue) :
         LET courseId == state.courseQueue[x].id
             queue == SelectSeq(state.courseQueue, LAMBDA course : course.id # courseId)
         IN  state' = IF Len(queue) = 0
                      THEN [courseQueue |-> queue, generatedSchedule |-> Null, currentStep |-> 1]
                      ELSE [state EXCEPT !.courseQueue = queue]
    /\ UNCHANGED <<timers, outcome, clock, statusContainer, loadingIndicator>>
    /\ UNCHANGED <<solverVars, greedyVars, timetableVars, managerVars, pageVars>>

\* the button is enabled while the queue is not empty; the confirm dialog
\* is accepted
handleClearQueue ==
    /\ Len(state.courseQueue) # 0
    /\ state' = [courseQueue |-> <<>>, generatedSchedule |-> Null, currentStep |-> 1]
    /\ UNCHANGED <<timers, outcome, clock, statusContainer, loadingIndicator>>
    /\ UNCHANGED <<solverVars, greedyVars, timetableVars, managerVars, pageVars>>

\* generate or regenerate is clicked: setTimeout(..., 1500)
handleGenerateSchedule ==
    /\ ~ (Len(state.courseQueue) < 1)
    /\ timers < MaxTimers
    /\ timers' = timers + 1
    /\ loadingIndicator' = "shown"
    /\ UNCHANGED <<state, outcome, clock, statusContainer>>
    /\ UNCHANGED <<solverVars, greedyVars, timetableVars, managerVars, pageVars>>

\* the message removes itself 5 seconds after showStatus
StatusExpires ==
    /\ statusContainer # Null
    /\ statusContainer' = Null
    /\ UNCHANGED <<state, timers, outcome, clock, loadingIndicator>>
    /\ UNCHANGED <<solverVars, greedyVars, timetableVars, managerVars, pageVars>>

\* a callback whose try block has neither catch nor finally
GenerationCallbackUncaught ==
    /\ timers > 0
    /\ timers' = timers - 1
    /\ outcome' = generateScheduleWithSolver(state.courseQueue)
    /\ state' = IF outcome'.thrown THEN state
                 ELSE [state EXCEPT !.generatedSchedule = outcome'.schedule,
                                    !.currentStep = 3]
    /\ statusContainer' = IF outcome'.thrown THEN statusContainer ELSE [type |-> "success"]
    /\ loadingIndicator' = IF outcome'.thrown THEN loadingIndicator ELSE "hidden"
    /\ UNCHANGED clock
    /\ UNCHANGED <<solverVars, greedyVars, timetableVars, managerVars, pageVars>>

\* the callback of setTimeout runs: try, catch and finally
GenerationCallback ==
    /\ timers > 0
    /\ timers' = timers - 1
    /\ outcome' = generateScheduleWithSolver(state.courseQueue)
    /\ state' = IF outcome'.thrown THEN state
                 ELSE [state EXCEPT !.generatedSchedule = outcome'.schedule,
                                    !.currentStep = 3]
    /\ statusContainer' = IF outcome'.thrown THEN [type |-> "error"] ELSE [type |-> "success"]
    /\ loadingIndicator' = "hidden"
    /\ UNCHANGED clock
    /\ UNCHANGED <<solverVars, greedyVars, timetableVars, managerVars, pageVars>>

AppNext ==
    \/ handleAddCourse
    \/ removeCourseFromQueue
    \/ handleClearQueue
    \/ handleGenerateSchedule
    \/ GenerationCallback
    \/ StatusExpires

AppSpec == AppStart /\ [][AppNext]_vars

----------------------------------------------------------------------------
(* Properties of the backtracking + relaxed solver *)

Succeeded == pc = "done" /\ result.success

ExactSucceeded == pc = "done" /\ btResult.success

RelaxedSucceeded == Succeeded /\ ~ btResult.success

Cell(e) == <<e.day, e.hour>>

EntriesOf(sched, course) == {i \in DOMAIN sched : sched[i].course.id = course.id}

RECURSIVE TotalDuration(_)
TotalDuration(list) ==
    IF list = <<>> THEN 0 ELSE Head(list).duration + TotalDuration(Tail(list))

\* C1: whenever solve returns success=true, no two entries of the returned
\* schedule share the same (day, hour)
C1_NoSharedCell ==
    Succeeded =>
        \A i, j \in DOMAIN result.schedule :
            i # j => Cell(result.schedule[i]) # Cell(result.schedule[j])

\* a successful relaxed run whose schedule holds contiguous and split entries
C1_Witness ==
    /\ RelaxedSucceeded
    /\ \E i, j \in DOMAIN result.schedule :
          result.schedule[i].isSplit /\ ~ result.schedule[j].isSplit

\* C2: whenever solve returns success=true, for every teacher and every
\* (day, hour) at most one entry at that cell belongs to a course of that
\* teacher
C2_NoTeacherDoubleBooking ==
    Succeeded =>
        \A t \in {courses[i].teacher : i \in DOMAIN courses}, d \in DaySet, h \in HourSet :
            Cardinality({i \in DOMAIN result.schedule :
                            /\ result.schedule[i].course.teacher = t
                            /\ Cell(result.schedule[i]) = <<d, h>>}) <= 1

\* success with two courses of one teacher whose preferred days overlap
C2_Witness ==
    /\ Succeeded
    /\ \E i, j \in DOMAIN courses :
          /\ i # j
          /\ courses[i].teacher = courses[j].teacher
          /\ Range(courses[i].preferredDays) \cap Range(courses[j].preferredDays) # {}
          /\ \E e \in DOMAIN result.schedule :
                /\ result.schedule[e].course.id = courses[j].id
                /\ result.schedule[e].day \in Range(courses[i].preferredDays)

\* C3: whenever solve returns success=true, every input course has exactly
\* `duration` entries in the returned schedule
C3_EveryCourseFullyPlaced ==
    Succeeded =>
        \A i \in DOMAIN courses :
            Cardinality(EntriesOf(result.schedule, courses[i])) = courses[i].duration

\* a relaxed success with a split course next to other courses
C3_Witness ==
    /\ RelaxedSucceeded
    /\ Len(courses) >= 2
    /\ \E i \in DOMAIN courses :
          /\ courses[i].duration > 1
          /\ \A e \in EntriesOf(result.schedule, courses[i]) : result.schedule[e].isSplit
          /\ Cardinality({result.schedule[e].day : e \in EntriesOf(result.schedule, courses[i])}) > 1

\* C4: in every schedule returned with success=true, a course whose entries
\* are not flagged as split has all its entries on one day at consecutive
\* hours, and as many entries as its duration
C4_ContiguousBlocks ==
    Succeeded =>
        \A i \in DOMAIN courses :
            LET block == {e \in EntriesOf(result.schedule, courses[i]) :
                             ~ result.schedule[e].isSplit}
            IN  block # {} =>
                  /\ Cardinality(block) = courses[i].duration
                  /\ \E d \in DaySet, s \in HourSet :
                        {Cell(result.schedule[e]) : e \in block}
                            = {<<d, h>> : h \in s..(s + courses[i].duration - 1)}

\* success with a contiguous course of several hours that is not on Monday
C4_Witness ==
    /\ Succeeded
    /\ \E e \in DOMAIN result.schedule :
          /\ ~ result.schedule[e].isSplit
          /\ result.schedule[e].course.duration >= 3
          /\ result.schedule[e].day # "Monday"
          /\ result.schedule[e].hour > FirstHour

OverCapacity == TotalDuration(courses) > Len(days) * Len(hours)

\* C5: if the durations of the submitted courses add up to more than the
\* number of grid cells (5 days x the hours of the solver), solve never
\* returns success=true
C5_OverCapacityNeverSucceeds == OverCapacity => ~ Succeeded

\* solve has returned for a list that asks for more hours than the grid has
C5_Witness == pc = "done" /\ OverCapacity /\ Len(courses) >= 2

----------------------------------------------------------------------------
(* Completeness and search order of backtrackScheduling *)

CandidateDays(course) ==
    IF course.preferredDays # <<>> THEN Range(course.preferredDays) ELSE DaySet

\* the candidate days in the fixed Monday..Friday order
CandidateDaySeq(course) == SelectSeq(days, LAMBDA d : d \in CandidateDays(course))

CandidateStarts(course) == {s \in HourSet : s <= EndHour - course.duration}

Block(day, start, duration) == {<<day, h>> : h \in start..(start + duration - 1)}

\* courses i.. can each get a block on a candidate day, disjoint from each
\* other and from the occupied cells
RECURSIVE Assignable(_, _)
Assignable(i, occupied) ==
    \/ i > Len(courses)
    \/ \E d \in CandidateDays(courses[i]), s \in CandidateStarts(courses[i]) :
          /\ Block(d, s, courses[i].duration) \cap occupied = {}
          /\ Assignable(i + 1, occupied \cup Block(d, s, courses[i].duration))

\* C7: backtrackScheduling returns success if and only if there is an
\* assignment giving every course a block of `duration` consecutive hours on
\* one of its candidate days, at a start hour the solver enumerates, with no
\* two blocks sharing a (day, hour)
C7_ExactComplete ==
    /\ pc = "relaxed-begin" => ~ Assignable(1, {})
    /\ ExactSucceeded => Assignable(1, {})

\* the exact search succeeded although the first candidate of the first
\* course (Monday, 8) had to be given up
C7_Witness ==
    /\ ExactSucceeded
    /\ Len(courses) >= 2
    /\ courses[1].preferredDays = <<>>
    /\ \E e \in EntriesOf(btResult.schedule, courses[1]) :
          btResult.schedule[e].day # "Monday"

CellsBefore(sched, i) ==
    {Cell(sched[e]) : e \in {x \in DOMAIN sched : sched[x].course.id < i}}

\* the block of course i is on the day at position p of its day order, from s
PlacedAt(sched, i, p, s) ==
    {Cell(sched[e]) : e \in EntriesOf(sched, courses[i])}
        = Block(CandidateDaySeq(courses[i])[p], s, courses[i].duration)

\* C9: when backtrackScheduling succeeds its schedule is the first complete
\* feasible assignment in the search order (courses in input order, days in
\* Monday..Friday order, start hours ascending); a single course of duration
\* 3 without preferences is placed on Monday at 8, 9 and 10
C9_FirstInSearchOrder ==
    ExactSucceeded =>
        /\ \A i \in DOMAIN courses :
              \E p \in 1..Len(CandidateDaySeq(courses[i])), s \in CandidateStarts(courses[i]) :
                  /\ PlacedAt(btResult.schedule, i, p, s)
                  /\ \A q \in 1..p, r \in CandidateStarts(courses[i]) :
                        (q < p \/ r < s) =>
                            LET b == Block(CandidateDaySeq(courses[i])[q], r, courses[i].duration)
                                before == CellsBefore(btResult.schedule, i)
                            IN  ~ (b \cap before = {} /\ Assignable(i + 1, before \cup b))
        /\ \A e, f \in DOMAIN btResult.schedule :
              e < f =>
                \/ btResult.schedule[e].course.id < btResult.schedule[f].course.id
                \/ /\ btResult.schedule[e].course.id = btResult.schedule[f].course.id
                   /\ btResult.schedule[e].hour < btResult.schedule[f].hour
        /\ (Len(courses) = 1 /\ courses[1].duration = 3 /\ courses[1].preferredDays = <<>>) =>
              [e \in DOMAIN btResult.schedule |-> Cell(btResult.schedule[e])]
                  = <<(<<"Monday", 8>>), (<<"Monday", 9>>), (<<"Monday", 10>>)>>

\* the single course of duration 3 without preferences has been placed
C9_Witness ==
    /\ ExactSucceeded
    /\ Len(courses) = 1
    /\ courses[1].duration = 3
    /\ courses[1].preferredDays = <<>>
    /\ Len(btResult.schedule) = 3

\* the call on top of the stack has run out of candidates and is about to
\* return { success: false }
ReportsFailure ==
    /\ pc = "backtrack"
    /\ stack # <<>>
    /\ Top.courseIndex <= Len(courses)
    /\ PendingCandidates(Top) = {}

\* C8 as stated: preferred days only order the candidates; before
\* backtrackScheduling reports failure at a course index it has tried the
\* non-preferred days as well
C8_AllDaysTriedBeforeFailure ==
    ReportsFailure => Range(Top.daysToTry) = DaySet

\* C8 amended: a non-empty preferredDays list is a hard filter of the exact
\* solver; the days a call tries are the preferred days (all five days only
\* when there are none), and every block the search places for such a course
\* is on one of its preferred days
C8_PreferredDaysAreHardFilter ==
    /\ ReportsFailure => Range(Top.daysToTry) = CandidateDays(courses[Top.courseIndex])
    /\ \A n \in DOMAIN stack :
          \A e \in DOMAIN stack[n].schedule :
              stack[n].schedule[e].day \in CandidateDays(stack[n].schedule[e].course)

\* failure is reported for a course with preferred days while a day outside
\* its preferences still has a free block for it
C8_Witness ==
    /\ ReportsFailure
    /\ LET course == courses[Top.courseIndex]
       IN  /\ course.preferredDays # <<>>
           /\ \E d \in DaySet \ Range(course.preferredDays), s \in CandidateStarts(course) :
                 CanScheduleExact(Top.teacherAvailability, d, s, course.duration)
           /\ Len(Top.schedule) > 0

----------------------------------------------------------------------------
(* Properties of the greedy strategy solver *)

\* C6: during one solve call every write to grid[day][time] targets a cell
\* that is null at that moment, so a cell that holds a course is never
\* overwritten; a course that finds its cells taken is placed elsewhere or
\* reported unassigned
C6_WritesOnlyToNullCells ==
    /\ \A w \in DOMAIN writes : writes[w].before = Null
    /\ \A w \in DOMAIN writes :
          gpc = "done" => gResult.grid[writes[w].day][writes[w].time].courseCode = writes[w].course

\* two courses of one teacher that ask for the same days and times have
\* both been placed
C6_Witness ==
    /\ gpc = "done"
    /\ \E i, j \in DOMAIN gSorted :
          /\ i < j
          /\ gSorted[i].teacher = gSorted[j].teacher
          /\ gSorted[i].days = gSorted[j].days
          /\ gSorted[i].timePreferences = gSorted[j].timePreferences
          /\ Len(gSorted[i].days) > 0
          /\ \E w \in DOMAIN writes : writes[w].course = gSorted[i].courseCode
          /\ \E w \in DOMAIN writes : writes[w].course = gSorted[j].courseCode

----------------------------------------------------------------------------
(* Properties of the mutable-grid solver (Scheduler.js) *)

\* a call whose loop is running: no recursive call of it is in progress
LoopRunning(n) == n = Len(calls) /\ calls[n].index <= Len(tSorted)

\* C10: after a failed recursive call removeCourse releases exactly the
\* cells placeCourse reserved: whenever a call tries its next candidate or
\* returns failure, this.schedule is cell for cell what it was when the call
\* was entered; after a failure of the outermost call the grid is empty
C10_BacktrackRestoresSchedule ==
    /\ \A n \in DOMAIN calls : LoopRunning(n) => timetable = calls[n].entry
    /\ (tpc = "done" /\ ~ tResult.success) =>
          /\ timetable = emptyTimetable
          /\ tResult.schedule = emptyTimetable

\* a call is back in its loop after a failed recursive call on a placement
\* of a course of several hours, next to a course placed by its own caller
C10_Witness ==
    /\ Len(calls) = 2
    /\ LoopRunning(2)
    /\ DurationOf(tSorted[2]) > 1
    /\ Cardinality(findAvailableSlots(tSorted[2]) \ calls[2].untried) >= 1
    /\ \E s \in findAvailableSlots(tSorted[2]) \ calls[2].untried :
          canPlaceCourse(timetable, tSorted[2], s[1], s[2])
    /\ timetable # emptyTimetable

----------------------------------------------------------------------------
(* C11: At every step of backtrackScheduling, relaxedScheduling and         *)
(* tryToSplitCourse the availability map and the schedule list of one       *)
(* search frame agree: availability[day][hour] is false exactly when the    *)
(* schedule has an entry at (day, hour), and the list has one entry per     *)
(* used cell, so neither is changed without the other.                      *)

UsedCells(availability) ==
    {c \in DaySet \X HourSet : ~ availability[c[1]][c[2]]}

ScheduledCells(sched) == {Cell(sched[i]) : i \in DOMAIN sched}

Agree(sched, availability) ==
    /\ UsedCells(availability) = ScheduledCells(sched)
    /\ Cardinality(UsedCells(availability)) = Len(sched)

C11_AvailabilityMatchesSchedule ==
    /\ \A n \in DOMAIN stack : Agree(stack[n].schedule, stack[n].teacherAvailability)
    /\ Agree(schedule, teacherAvailability)

\* the split strategy has placed hours next to the contiguous blocks of
\* the relaxed solver
C11_Witness ==
    /\ pc = "split"
    /\ hoursPlaced > 0
    /\ \E i \in DOMAIN schedule : ~ schedule[i].isSplit
    /\ \E i \in DOMAIN schedule : schedule[i].isSplit

----------------------------------------------------------------------------
(* C12: Within one solve call relaxedScheduling is invoked exactly when     *)
(* backtrackScheduling has returned failure from its outermost call; when   *)
(* the exact search succeeds neither the relaxed solver nor the split       *)
(* strategy has run and the result carries the exact solver's schedule.     *)

\* relaxedScheduling has been entered (its course loop starts at 1)
RelaxedInvoked == relaxedIndex >= 1

SplitInvoked == pc = "split" \/ hoursPlaced > 0 \/ daysToTry # <<>>

ExactFailed == btResult = [success |-> FALSE]

C12_RelaxedOnlyAfterExactFailure ==
    /\ RelaxedInvoked => (ExactFailed /\ stack = <<>>)
    /\ pc \in {"relaxed", "split", "done"} => (RelaxedInvoked <=> ExactFailed)
    /\ pc = "relaxed-begin" => ExactFailed
    /\ ExactSucceeded =>
          /\ ~ RelaxedInvoked
          /\ ~ SplitInvoked
          /\ sortedCourses = <<>>
          /\ result = [success |-> TRUE, schedule |-> btResult.schedule]

\* the relaxed solver ran after a failed exact search of two or more courses
\* and produced the result
C12_Witness ==
    /\ pc = "done"
    /\ RelaxedInvoked
    /\ result.success
    /\ Len(courses) >= 2

----------------------------------------------------------------------------
(* C13: No placement of an earlier solving attempt is visible to a later    *)
(* one: relaxedScheduling starts from an empty schedule and an all-free     *)
(* availability map, and a second solve call on a solver instance starts    *)
(* from an all-empty grid and leaves the grid object the first call         *)
(* returned as it was returned.                                             *)

C13_AttemptsAreIsolated ==
    /\ (pc = "relaxed" /\ relaxedIndex = 1) =>
          /\ schedule = <<>>
          /\ teacherAvailability = initializeAvailability
    /\ gEarlier # Null => EarlierGridNow = gEarlier.grid
    /\ (gEarlier # Null /\ gpc = "assign" /\ gIndex = 1) => grid = initializeGrid
    /\ tEarlier # Null => EarlierScheduleNow = tEarlier.schedule
    /\ (tEarlier # Null /\ tpc = "search") => calls[1].entry = emptyTimetable

\* a second greedy solve has returned a grid that differs from the non-empty
\* grid of the first
C13_Witness ==
    /\ gEarlier # Null
    /\ gpc = "done"
    /\ gEarlier.grid # initializeGrid
    /\ gResult.grid # gEarlier.grid
    /\ gResult.grid # initializeGrid

----------------------------------------------------------------------------
(* C14: tryToSplitCourse returns true exactly when the number of free cells *)
(* of the availability map at the time of the call is at least the course's *)
(* duration, whatever days Math.random selects; on true it has added        *)
(* exactly `duration` entries, each in a cell that was free.                *)

FreeCells(availability) ==
    {c \in DaySet \X HourSet : availability[c[1]][c[2]]}

\* the while loop of tryToSplitCourse is over
SplitLoopOver ==
    /\ pc = "split"
    /\ ~ (hoursPlaced < sortedCourses[relaxedIndex].duration /\ Len(daysToTry) > 0)

\* the entries tryToSplitCourse has pushed for the course of this call
SplitEntries ==
    {i \in DOMAIN schedule :
        schedule[i].isSplit /\ schedule[i].course.id = sortedCourses[relaxedIndex].id}

\* every hour placed took one free cell, so the map had
\* |free now| + hoursPlaced free cells when the call began
C14_SplitSucceedsIffEnoughFreeCells ==
    SplitLoopOver =>
        LET duration == sortedCourses[relaxedIndex].duration
        IN  /\ SplitSucceeded(hoursPlaced, duration) <=>
                  Cardinality(FreeCells(teacherAvailability)) + hoursPlaced >= duration
            /\ SplitSucceeded(hoursPlaced, duration) =>
                  Cardinality(SplitEntries) = duration

----------------------------------------------------------------------------
(* C15: When the relaxed solver cannot place a course contiguously and the  *)
(* split strategy places fewer than `duration` hours, solve fails the whole *)
(* run: the result is { success: false, message } and carries neither the   *)
(* placements of the other courses nor the course that was not placed.      *)

\* solve has returned after tryToSplitCourse returned false
SplitFailed ==
    /\ pc = "done"
    /\ ~ result.success
    /\ relaxedIndex \in DOMAIN sortedCourses
    /\ sortedCourses[relaxedIndex].duration > 1

----------------------------------------------------------------------------
(* C16: In every schedule the relaxed path returns, an entry carries the    *)
(* split flag exactly when tryToSplitCourse created it (its course is the   *)
(* copy with originalDuration); contiguous placements never carry it, and   *)
(* the entries of one course are all flagged or all unflagged.              *)

\* tryToSplitCourse pushes a copy of the course that has originalDuration
CreatedBySplit(e) == "originalDuration" \in DOMAIN e.course

C16_SplitFlagMarksSplitEntries ==
    RelaxedSucceeded =>
        /\ \A i \in DOMAIN result.schedule :
              result.schedule[i].isSplit <=> CreatedBySplit(result.schedule[i])
        /\ \A i, j \in DOMAIN result.schedule :
              result.schedule[i].course.id = result.schedule[j].course.id =>
                  result.schedule[i].isSplit = result.schedule[j].isSplit

\* a returned schedule with a split course and a contiguous one
C16_Witness ==
    /\ RelaxedSucceeded
    /\ \E i \in DOMAIN result.schedule : result.schedule[i].isSplit
    /\ \E i \in DOMAIN result.schedule : ~ CreatedBySplit(result.schedule[i])

----------------------------------------------------------------------------
(* C17: relaxedScheduling processes the courses in the order of a sort by   *)
(* duration descending, ties broken by the number of preferred days         *)
(* ascending: the list it works on is a rearrangement of the caller's list  *)
(* in that order, the courses are placed in that order, and the course      *)
(* placed first is one of the longest with the fewest preferred days.       *)

PositionIn(list, id) == CHOOSE i \in DOMAIN list : list[i].id = id

GoesNoLater(a, b) ==
    \/ a.duration > b.duration
    \/ a.duration = b.duration /\ Len(a.preferredDays) <= Len(b.preferredDays)

C17_RelaxedOrder ==
    RelaxedInvoked =>
        /\ Len(sortedCourses) = Len(courses)
        /\ Range(sortedCourses) = Range(courses)
        /\ \A i, j \in DOMAIN sortedCourses :
              i < j => GoesNoLater(sortedCourses[i], sortedCourses[j])
        /\ \A a, b \in DOMAIN schedule :
              a < b => PositionIn(sortedCourses, schedule[a].course.id)
                           <= PositionIn(sortedCourses, schedule[b].course.id)
        /\ schedule # <<>> =>
              \A i \in DOMAIN courses : GoesNoLater(schedule[1].course, courses[i])

\* two courses of equal duration are placed in the reverse of the caller's
\* order because the later one has fewer preferred days
C17_Witness ==
    /\ pc = "relaxed"
    /\ \E i, j \in DOMAIN courses :
          /\ i < j
          /\ courses[i].duration = courses[j].duration
          /\ Len(courses[j].preferredDays) < Len(courses[i].preferredDays)
          /\ EntriesOf(schedule, courses[i]) # {}
          /\ PositionIn(sortedCourses, courses[j].id) < PositionIn(sortedCourses, courses[i].id)

----------------------------------------------------------------------------
(* C18: For each course relaxedScheduling tries the preferred days first,   *)
(* in Monday..Friday order, then the remaining days in that order, and on   *)
(* each day the start hours ascending; a course placed contiguously is on   *)
(* the first (day, start) of that order whose `duration` cells were all     *)
(* free when its turn came.                                                 *)

FixedOrderDays(course) ==
    SelectSeq(days, LAMBDA d : d \in Range(course.preferredDays))
    \o SelectSeq(days, LAMBDA d : d \notin Range(course.preferredDays))

\* the cells taken before the first entry of a course was pushed
CellsAhead(sched, course) ==
    {Cell(sched[e]) : e \in 1..(Minimum(EntriesOf(sched, course)) - 1)}

PlacedContiguously(course) ==
    /\ EntriesOf(schedule, course) # {}
    /\ \A e \in EntriesOf(schedule, course) : ~ schedule[e].isSplit

C18_RelaxedFirstFreeBlock ==
    \A k \in DOMAIN sortedCourses :
        LET course == sortedCourses[k]
            order == FixedOrderDays(course)
        IN  PlacedContiguously(course) =>
                \E p \in DOMAIN order, s \in CandidateStarts(course) :
                    /\ {Cell(schedule[e]) : e \in EntriesOf(schedule, course)}
                          = Block(order[p], s, course.duration)
                    /\ \A q \in 1..p, r \in CandidateStarts(course) :
                          (q < p \/ r < s) =>
                              Block(order[q], r, course.duration)
                                  \cap CellsAhead(schedule, course) # {}

\* a course with a preferred day has been placed on a later day of the
\* remaining ones, at a start hour after 8
C18_Witness ==
    /\ pc = "relaxed"
    /\ \E k \in DOMAIN sortedCourses :
          /\ PlacedContiguously(sortedCourses[k])
          /\ sortedCourses[k].preferredDays # <<>>
          /\ \A e \in EntriesOf(schedule, sortedCourses[k]) :
                /\ schedule[e].day \notin Range(sortedCourses[k].preferredDays)
                /\ schedule[e].day # "Monday"
                /\ schedule[e].hour > FirstHour

----------------------------------------------------------------------------
(* C19: On each candidate day the exact solver tries exactly the start      *)
(* hours s with s >= 8 and s + duration - 1 <= 17, 8..17 being the hours of *)
(* the availability map: a call reports failure only when none of these     *)
(* blocks is free, and a course as long as the day has hours is placed      *)
(* contiguously.                                                            *)

\* the start hours of the statement
StartsWithinHourSet(course) ==
    {s \in HourSet : s + course.duration - 1 <= Maximum(HourSet)}

C19_StartHoursReachLastHour ==
    /\ ReportsFailure =>
          LET course == courses[Top.courseIndex]
          IN  \A p \in DOMAIN Top.daysToTry, s \in StartsWithinHourSet(course) :
                  \E h \in s..(s + course.duration - 1) :
                      ~ Top.teacherAvailability[Top.daysToTry[p]][h]
    /\ (pc = "done" /\ Len(courses) = 1 /\ courses[1].duration = HoursLength) =>
          ExactSucceeded

----------------------------------------------------------------------------
(* C20: No solve call changes the caller's data: no step of a solve call of *)
(* any of the three solvers changes the caller's course list (its length,   *)
(* its order, the fields of its records); the list only changes when the    *)
(* caller of the greedy solver passes another list to a new call.           *)

C20_CallerListUnchanged ==
    [][ /\ courses' = courses
        /\ queued' = queued
        /\ gpc # "done" => gCourses' = gCourses ]_vars

\* a greedy solve has returned after working in an order that is not the
\* order of the caller's list
C20_Witness ==
    /\ gpc = "done"
    /\ Len(gCourses) >= 2
    /\ gSorted # gCourses
    /\ gResult.unassignedCourses = <<>>

(***************************************************************************)
(* C21: with the same course list and a day selection in tryToSplitCourse  *)
(* that is fixed instead of random, two calls of solve return the same     *)
(* result: the same success flag, the same entries in the same order and   *)
(* the same message.                                                       *)
(***************************************************************************)
SecondCallDone == pc = "done" /\ earlier # Null

OneCourseRemoved ==
    \E i \in 1..Len(earlier.courses) : courses = WithoutCourse(earlier.courses, i)

C22_RemovalKeepsSuccess ==
    (SecondCallDone /\ earlier.result.success /\ OneCourseRemoved)
        => result.success

\* the first call succeeded through relaxedScheduling, the second call on
\* the shorter list still needs relaxedScheduling
C22_Witness ==
    /\ SecondCallDone
    /\ earlier.result.success
    /\ OneCourseRemoved
    /\ "message" \in DOMAIN earlier.result
    /\ "message" \in DOMAIN result
    /\ result.success

(***************************************************************************)
(* C23: a course with a preferred day outside Monday..Friday or with a     *)
(* duration below 1 is rejected before any solving attempt, and the valid  *)
(* courses of the same list are still scheduled: no call of                *)
(* backtrackScheduling works on such a course, and when the valid courses  *)
(* fit into the week solve succeeds with entries for the valid courses     *)
(* only.                                                                   *)
(***************************************************************************)
ValidCourse(course) ==
    /\ course.duration >= 1
    /\ \A p \in 1..Len(course.preferredDays) : course.preferredDays[p] \in DaySet

ValidCourses == SelectSeq(courses, ValidCourse)

NoAttemptOnInvalidCourse ==
    (pc = "backtrack" /\ stack # <<>> /\ Top.courseIndex <= Len(courses))
        => ValidCourse(courses[Top.courseIndex])

ValidCoursesStillScheduled ==
    (pc = "done" /\ TotalDuration(ValidCourses) <= Cardinality(DaySet) * (EndHour - FirstHour))
        => /\ result.success
           /\ \A i \in 1..Len(courses) :
                Cardinality(EntriesOf(result.schedule, courses[i]))
                    = IF ValidCourse(courses[i]) THEN courses[i].duration ELSE 0

C23_InvalidCoursesRejected == NoAttemptOnInvalidCourse /\ ValidCoursesStillScheduled

SlotsOf(sched, course) == {i \in 1..Len(sched) : sched[i].course = course}

GridCellsOf(g, course) ==
    {c \in DaySet \X SlotSet :
        g[c[1]][c[2]] # Null /\ g[c[1]][c[2]].courseCode = course.courseCode}

C25_UnassignedOccupiesNoCell ==
    gpc = "done" =>
        \A u \in 1..Len(gResult.unassignedCourses) :
            GridCellsOf(gResult.grid, gResult.unassignedCourses[u]) = {}

(***************************************************************************)
(* C26: in the result of the greedy solve, every course that is not in     *)
(* unassignedCourses occupies exactly `hours` cells of the grid, whichever *)
(* strategy placed it.                                                     *)
(***************************************************************************)
Unassigned(course) ==
    \E u \in 1..Len(gResult.unassignedCourses) : gResult.unassignedCourses[u] = course

C26_AssignedOccupiesHoursCells ==
    gpc = "done" =>
        \A i \in 1..Len(gCourses) :
            ~ Unassigned(gCourses[i])
                => Cardinality(GridCellsOf(gResult.grid, gCourses[i])) = gCourses[i].hours

\* a 4-hour course placed by the 2+2 pattern next to a course placed by the
\* custom days strategy
C26_Witness ==
    /\ gpc = "done"
    /\ \E i \in 1..Len(gCourses) :
         /\ ~ Unassigned(gCourses[i])
         /\ gCourses[i].hours = 4
         /\ gCourses[i].days = <<>>
         /\ \E t1, t2 \in SlotSet :
              /\ t1 # t2
              /\ GridCellsOf(gResult.grid, gCourses[i])
                    = ({"Monday", "Wednesday"} \X {t1}) \cup ({"Tuesday", "Thursday"} \X {t2})
    /\ \E i \in 1..Len(gCourses) :
         /\ ~ Unassigned(gCourses[i])
         /\ gCourses[i].days # <<>>
         /\ GridCellsOf(gResult.grid, gCourses[i]) # {}

(***************************************************************************)
(* C27: after generateScheduleLocally completed with a successful result,  *)
(* and until clearQueue, currentSchedule holds the schedule of that result *)
(* and neither exportSchedule nor printSchedule reports that there is no   *)
(* schedule.                                                               *)
(***************************************************************************)
C27_ScheduleKeptUntilClear ==
    (pc = "returned" /\ result.success)
        => /\ currentSchedule = result.schedule
           /\ status \notin {"No schedule to export", "No schedule to print"}

(***************************************************************************)
(* C28: in every reachable state of the page script, under any             *)
(* interleaving of the add, remove, clear and generate handlers and the    *)
(* delayed generation callbacks: whenever state.courseQueue is empty,      *)
(* state.generatedSchedule is null and state.currentStep is 1.             *)
(***************************************************************************)
C28_EmptyQueueMeansNoSchedule ==
    Len(state.courseQueue) = 0
        => (state.generatedSchedule = Null /\ state.currentStep = 1)

(***************************************************************************)
(* C29: for lists with valid preferred days and durations of at least 1,   *)
(* solve returns success exactly when the sum of the durations is at most  *)
(* 45, the number of cells of the hours 8..16 of the five days, whatever   *)
(* the preferences, the order of the list and the days the split picks.    *)
(***************************************************************************)
AssignableCells == Len(days) * (EndHour - FirstHour)

C29_SuccessIffWithinCapacity ==
    pc = "done" => (result.success <=> TotalDuration(courses) <= AssignableCells)

\* a list that fills all but one cell and succeeds only through
\* relaxedScheduling
C29_Witness ==
    /\ pc = "done"
    /\ result.success
    /\ "message" \in DOMAIN result
    /\ TotalDuration(courses) = AssignableCells - 1

(***************************************************************************)
(* C30: canPlaceCourse(course, day, time) of Scheduler.js is true exactly  *)
(* when the `duration` consecutive slots from `time` exist on that day and *)
(* are all empty, so that the teacher occupies none of them; what the      *)
(* teacher teaches on other days does not affect the answer.               *)
(***************************************************************************)
SlotsExistAndAreEmpty(sched, course, day, time) ==
    /\ IndexOf(slotHours, time) - 1 + DurationOf(course) <= Len(slotHours)
    /\ \A t \in CoveredSlots(course, time) : sched[day][t] = Null

C30_CanPlaceLooksAtOneDayOnly ==
    \A i \in 1..Len(queued) : \A day \in DaySet : \A time \in SlotHourSet :
        canPlaceCourse(timetable, queued[i], day, time)
            <=> SlotsExistAndAreEmpty(timetable, queued[i], day, time)

(***************************************************************************)
(* C31: hasTeacherConflict(teacher, day, time) of the greedy solver is     *)
(* true exactly when the cell at that (day, time) holds a course of that   *)
(* teacher; no other cell causes a conflict.                               *)
(***************************************************************************)
Teachers == {"T1", "T2"}

HoldsTeacher(g, teacher, day, time) ==
    time \in SlotSet /\ g[day][time] # Null /\ g[day][time].teacher = teacher

C31_ConflictOnlyAtExactCell ==
    \A teacher \in Teachers, day \in DaySet, time \in SlotSet :
        hasTeacherConflict(grid, teacher, day, time) <=> HoldsTeacher(grid, teacher, day, time)

\* hasTeacherConflict is true exactly when the teacher holds the cell at
\* that time or at the slot directly before or after it on the same day;
\* cells of other days never cause a conflict
C31_ConflictAtCellOrNeighbour ==
    \A teacher \in Teachers, day \in DaySet, time \in SlotSet :
        hasTeacherConflict(grid, teacher, day, time)
            <=> \E t \in {time - 1, time, time + 1} : HoldsTeacher(grid, teacher, day, t)

\* a conflict caused by the neighbouring slot alone, next to a cell of the
\* same teacher two slots away that causes none
C31_Witness ==
    \E teacher \in Teachers, day \in DaySet, time \in SlotSet :
        /\ hasTeacherConflict(grid, teacher, day, time)
        /\ grid[day][time] = Null
        /\ HoldsTeacher(grid, teacher, day, time + 1)
        /\ ~ hasTeacherConflict(grid, teacher, day, time - 1)
        /\ time - 1 \in SlotSet

(***************************************************************************)
(* C32: when solve of Scheduler.js returns success = false, the conflicts  *)
(* list has exactly one entry, the first course of the sorted order,       *)
(* whichever course had no feasible slot, and every cell of the returned   *)
(* schedule is null.                                                       *)
(***************************************************************************)
TimetableFailed == tpc = "done" /\ ~ tResult.success

C32_FailureNamesFirstCourse ==
    TimetableFailed
        => /\ Len(tResult.conflicts) = 1
           /\ tResult.conflicts[1] = tSorted[1]
           /\ \A day \in DaySet, time \in SlotHourSet : tResult.schedule[day][time] = Null

\* the first course of the sorted order, of two hours, has a slot on the
\* empty schedule; the search fails because of a later course
C32_Witness ==
    /\ TimetableFailed
    /\ Len(tSorted) >= 2
    /\ DurationOf(tSorted[1]) >= 2
    /\ \E slot \in findAvailableSlots(tSorted[1]) :
          canPlaceCourse(emptyTimetable, tSorted[1], slot[1], slot[2])

(***************************************************************************)
(* C33: the success flag of solve of Scheduler.js does not depend on the   *)
(* shuffles of findAvailableSlots: two calls on the same course list, each *)
(* with its own shuffle outcomes, return the same flag.                    *)
(***************************************************************************)
SecondTimetableDone == tpc = "done" /\ tEarlier # Null

C33_SuccessIndependentOfShuffles ==
    SecondTimetableDone => tResult.success = tEarlier.success

\* two calls on a list of two courses that succeed with different schedules
C33_Witness ==
    /\ SecondTimetableDone
    /\ Len(queued) = 2
    /\ tResult.success
    /\ tEarlier.success
    /\ tResult.schedule # tEarlier.schedule

(***************************************************************************)
(* C34: solve terminates on every course list: it reaches its return, the  *)
(* calls of backtrackScheduling below the first one are never nested       *)
(* deeper than the number of courses, and every iteration of the while     *)
(* loop of tryToSplitCourse places at least one hour or removes one day    *)
(* from daysToTry, whatever day is selected.                               *)
(***************************************************************************)
SplitIteration == pc = "split" /\ pc' = "split"

SplitProgress == hoursPlaced' > hoursPlaced \/ Len(daysToTry') < Len(daysToTry)

C34_SolveTerminates ==
    /\ <>(pc = "done")
    /\ [](Len(stack) <= Len(courses) + 1)
    /\ [][SplitIteration => SplitProgress]_vars

\* solve has returned after a split that went through every day and both
\* placed hours and gave up days, and after a search nested as deep as the
\* list is long
C34_Witness ==
    /\ pc = "done"
    /\ Len(courses) >= 2
    /\ daysToTry = <<>>
    /\ hoursPlaced > 0
    /\ ~ result.success

(***************************************************************************)
(* C35: when the callback of setTimeout ends in the catch branch, because  *)
(* generateScheduleWithSolver threw on a course it could not place,        *)
(* state.generatedSchedule, state.currentStep and state.courseQueue are    *)
(* what they were before the callback, the status shown is an error and    *)
(* the loading indicator is hidden.                                        *)
(***************************************************************************)
CallbackFailed == timers' = timers - 1 /\ outcome'.thrown

C35_FailedGenerationKeepsState ==
    [][CallbackFailed =>
          /\ state' = state
          /\ statusContainer' = [type |-> "error"]
          /\ loadingIndicator' = "hidden"]_vars

\* a generation failed after an earlier one had succeeded: the earlier
\* schedule and step 3 are still in state
C35_Witness ==
    /\ outcome # Null
    /\ outcome.thrown
    /\ outcome.argument = state.courseQueue
    /\ state.generatedSchedule # Null
    /\ state.currentStep = 3
    /\ statusContainer = [type |-> "error"]
    /\ loadingIndicator = "hidden"

----------------------------------------------------------------------------
(* The page script of generate-schedule.html and its local solver path *)

MaxPageQueue == 3

MaxRequests == 2

USE_API == TRUE

\* what the form can hold when "Add to Queue" is clicked
PageShapes ==
    { [code |-> "CS101", teacher |-> "T1", hours |-> 3, preferred_days |-> "any"],
      [code |-> "MA201", teacher |-> "T2", hours |-> 2, preferred_days |-> "tth"] }

\* the methods of the class that schedule-solver.js assigns to
\* window.ScheduleSolver
ScheduleSolverMethods ==
    { "constructor", "initializeGrid", "solve", "sortCoursesByConstraints",
      "applySchedulingStrategies", "applyMWFStrategy", "applyTThStrategy",
      "applySingleDayStrategy", "applyCustomDaysStrategy",
      "applyDistributedHoursStrategy", "applyGeneralAssignmentStrategy",
      "canAssign", "canAssignConsecutive", "canAssignToAllDays",
      "hasTeacherConflict", "areConsecutiveTimeSlots", "getScheduleStats" }

\* the value of a parameter no argument was passed for
Undefined == [undefined |-> TRUE]

\* solve(courses) of that class: `[...courses]` of sortCoursesByConstraints
\* throws a TypeError when courses is undefined; the value returned has the
\* fields grid and unassignedCourses
SolveCall(argument) ==
    IF argument = Undefined
    THEN [thrown |-> TRUE]
    ELSE [thrown |-> FALSE,
          value |-> [grid |-> "grid", unassignedCourses |-> <<>>]]

\* generateScheduleLocally up to its finally branch: calling a method the
\* object does not have throws a TypeError
generateScheduleLocally(queue) ==
    IF queue # <<>> /\ "addCourse" \notin ScheduleSolverMethods
    THEN [queue |-> queue, caught |-> TRUE, displayed |-> FALSE, status |-> "error"]
    ELSE IF "solve" \notin ScheduleSolverMethods
    THEN [queue |-> queue, caught |-> TRUE, displayed |-> FALSE, status |-> "error"]
    ELSE LET call == SolveCall(Undefined)
         IN  IF call.thrown
             THEN [queue |-> queue, caught |-> TRUE, displayed |-> FALSE,
                   status |-> "error"]
             ELSE IF "success" \in DOMAIN call.value /\ call.value.success
             THEN [queue |-> queue, caught |-> FALSE, displayed |-> TRUE,
                   status |-> "success"]
             ELSE [queue |-> queue, caught |-> FALSE, displayed |-> TRUE,
                   status |-> "warning"]

\* the page after generateScheduleLocally ran
AfterLocalRun(run) ==
    [statusMessage |-> [type |-> run.status],
     loadingIndicator |-> "none",
     timetableContainer |-> IF run.displayed THEN "block" ELSE page.timetableContainer]

\* "Add to Queue" is clicked with the required fields filled in
addCourse ==
    /\ Len(courseQueue) < MaxPageQueue
    /\ \E course \in PageShapes : courseQueue' = Append(courseQueue, course)
    /\ page' = [page EXCEPT !.statusMessage = [type |-> "success"]]
    /\ UNCHANGED <<apiAvailable, fetches, localRun>>
    /\ UNCHANGED <<state, timers, outcome, clock, statusContainer, loadingIndicator>>
    /\ UNCHANGED <<solverVars, greedyVars, timetableVars, managerVars>>

\* the Remove button of a queued course: courseQueue.splice(index, 1)
removeQueuedCourse ==
    /\ \E index \in 1..Len(courseQueue) :
          courseQueue' = SubSeq(courseQueue, 1, index - 1)
                            \o SubSeq(courseQueue, index + 1, Len(courseQueue))
    /\ page' = [page EXCEPT !.statusMessage = [type |-> "info"]]
    /\ UNCHANGED <<apiAvailable, fetches, localRun>>
    /\ UNCHANGED <<state, timers, outcome, clock, statusContainer, loadingIndicator>>
    /\ UNCHANGED <<solverVars, greedyVars, timetableVars, managerVars>>

\* the timer of showStatus hides the message
hideStatus ==
    /\ page.statusMessage # Null
    /\ page' = [page EXCEPT !.statusMessage = Null]
    /\ UNCHANGED <<courseQueue, apiAvailable, fetches, localRun>>
    /\ UNCHANGED <<state, timers, outcome, clock, statusContainer, loadingIndicator>>
    /\ UNCHANGED <<solverVars, greedyVars, timetableVars, managerVars>>

\* the request of checkApiAvailability settles
checkApiAvailability ==
    /\ fetches.health > 0
    /\ fetches' = [fetches EXCEPT !.health = @ - 1]
    /\ \E ok \in BOOLEAN : apiAvailable' = ok
    /\ UNCHANGED <<courseQueue, page, localRun>>
    /\ UNCHANGED <<state, timers, outcome, clock, statusContainer, loadingIndicator>>
    /\ UNCHANGED <<solverVars, greedyVars, timetableVars, managerVars>>

\* "Generate Schedule" is clicked
generateSchedule ==
    /\ IF Len(courseQueue) = 0
       THEN /\ page' = [page EXCEPT !.statusMessage = [type |-> "warning"]]
            /\ UNCHANGED <<fetches, localRun>>
       ELSE IF USE_API /\ apiAvailable
       THEN /\ fetches.generate < MaxRequests
            /\ fetches' = [fetches EXCEPT !.generate = @ + 1]
            /\ page' = [page EXCEPT !.loadingIndicator = "block"]
            /\ UNCHANGED localRun
       ELSE /\ localRun' = generateScheduleLocally(courseQueue)
            /\ page' = AfterLocalRun(localRun')
            /\ UNCHANGED fetches
    /\ UNCHANGED <<courseQueue, apiAvailable>>
    /\ UNCHANGED <<state, timers, outcome, clock, statusContainer, loadingIndicator>>
    /\ UNCHANGED <<solverVars, greedyVars, timetableVars, managerVars>>

\* generateScheduleWithAPI after its fetch settled: a schedule, a result
\* without success, or an error and the fall back to the local solver
generateScheduleWithAPI ==
    /\ fetches.generate > 0
    /\ fetches' = [fetches EXCEPT !.generate = @ - 1]
    /\ \E response \in {"success", "failed", "error"} :
          IF response = "error"
          THEN /\ localRun' = generateScheduleLocally(courseQueue)
               /\ page' = AfterLocalRun(localRun')
          ELSE /\ page' = [statusMessage |-> [type |-> IF response = "success"
                                                      THEN "success" ELSE "error"],
                           loadingIndicator |-> "none",
                           timetableContainer |-> IF response = "success" THEN "block"
                                                  ELSE page.timetableContainer]
               /\ UNCHANGED localRun
    /\ UNCHANGED <<courseQueue, apiAvailable>>
    /\ UNCHANGED <<state, timers, outcome, clock, statusContainer, loadingIndicator>>
    /\ UNCHANGED <<solverVars, greedyVars, timetableVars, managerVars>>

PageNext ==
    \/ addCourse
    \/ removeQueuedCourse
    \/ hideStatus
    \/ checkApiAvailability
    \/ generateSchedule
    \/ generateScheduleWithAPI

PageSpec == AppStart /\ [][PageNext]_vars

(***************************************************************************)
(* C36: a run of generateScheduleLocally on a queue that is not empty does *)
(* not end in its catch branch: the solver object provides addCourse and   *)
(* solve as they are called, and displaySchedule is reached.               *)
(***************************************************************************)
C36_LocalPathReachesDisplay ==
    (localRun # Null /\ localRun.queue # <<>>) =>
        (~ localRun.caught /\ localRun.displayed)

(***************************************************************************)
(* C37: the greedy solver handles a 3-hour course without days by the MWF  *)
(* pattern alone, all or nothing: the course gets the cells of Monday,     *)
(* Wednesday and Friday at the earliest slot at which canAssign holds on   *)
(* all three days and no other cell changes; when there is no such slot   *)
(* the grid is left as it was and the course is pushed to                  *)
(* unassignedCourses.                                                      *)
(***************************************************************************)
mwfDays == {"Monday", "Wednesday", "Friday"}

MWFSlots(g, course) ==
    {time \in SlotSet : \A day \in mwfDays : canAssign(g, course, day, time)}

MWFCourseHandled ==
    /\ gpc = "assign"
    /\ gIndex' = gIndex + 1
    /\ gSorted[gIndex].hours = 3
    /\ gSorted[gIndex].days = <<>>

C37_MWFAllOrNothing ==
    [][MWFCourseHandled =>
          LET course == gSorted[gIndex]
              slots == MWFSlots(grid, course)
          IN  IF slots = {}
              THEN /\ grid' = grid
                   /\ unassignedCourses' = Append(unassignedCourses, course)
              ELSE /\ unassignedCourses' = unassignedCourses
                   /\ \A day \in DaySet, time \in SlotSet :
                         grid'[day][time] =
                            IF day \in mwfDays /\ time = Minimum(slots)
                            THEN CellOf(course)
                            ELSE grid[day][time]]_vars

\* one 3-hour course without days sits on Monday, Wednesday and Friday at a
\* slot later than 08:00, and another one is unassigned and holds no cell
C37_Witness ==
    /\ gpc = "done"
    /\ \E i \in 1..Len(gCourses) :
         /\ gCourses[i].hours = 3
         /\ gCourses[i].days = <<>>
         /\ \E time \in SlotSet \ {FirstSlot} :
               GridCellsOf(grid, gCourses[i]) = mwfDays \X {time}
    /\ \E u \in 1..Len(unassignedCourses) :
         /\ unassignedCourses[u].hours = 3
         /\ unassignedCourses[u].days = <<>>
         /\ GridCellsOf(grid, unassignedCourses[u]) = {}

====
